---------------------------- MODULE Spec2Model ----------------------------
(***************************************************************************)
(* A model of the array value engine of uiua: the Shape type of            *)
(* src/shape.rs and the monadic array algorithms of                        *)
(* src/algorithm/monadic.rs.                                               *)
(*                                                                         *)
(* Two state machines share the module.  SpecShape drives one Shape value  *)
(* through its mutating methods.  Spec drives one numeric array (a Shape   *)
(* and a flat data buffer) through the monadic operations.                 *)
(***************************************************************************)
EXTENDS Integers, Sequences, FiniteSets, TLC

VARIABLES
    shp,      \* the Shape under test: [sizes, markers]
    split,    \* the Shape the last call returned, when it was split_off
    scall,    \* the last Shape method call and what it returned
    arr,      \* the array: [shape |-> Shape, data |-> buffer]
    call,     \* the last array operation: its arguments, the array before, the result
    prior     \* the call before `call`, kept when the two form a round trip pair

vars == <<shp, split, scall, arr, call, prior>>
shapeVars == <<shp, split, scall>>
arrayVars == <<arr, call, prior>>

---------------------------------------------------------------------------
(* Bounds of the model *)

\* Shape machine: sizes of dimensions are 1..MaxSize, markers 1..MaxMarker
MaxSize == 2
MaxMarker == 1
\* Shape machine: longest dimension list handed to FromIterator
MaxInitLen == 2
\* Shape machine: a shape grows to at most this many dimensions
MaxShapeLen == 3
\* Array machine: rank of an initial array, rank an array grows to, size of a
\* dimension of an initial array, elements of an initial array, largest element value
MaxInitRank == 2
MaxRank == 3
MaxDim == 2
MaxElems == 4
MaxVal == 1
\* Array machine: largest depth argument, largest magnitude of a transpose amount
MaxDepth == 1
MaxAmnt == 4
\* Counts machine: rank, dimension size and element count of an initial array of
\* naturals, largest natural in it
MaxCountRank == 3
MaxCountDim == 3
MaxCountElems == 4
MaxCount == 2
\* Bits machine: rank, dimension size and element count of an initial array,
\* largest of the small naturals in it
MaxBitsRank == 2
MaxBitsDim == 2
MaxBitsElems == 2
MaxNat == 3
\* Range machine: length of a requested shape, largest of its small sizes,
\* longest result buffer the model builds
MaxRangeLen == 3
MaxRangeSize == 2
MaxBuilt == 1024

\* Boxed values: rank, dimension size and element count of every array, and
\* the depth of a call
MaxBoxRank == 2
MaxBoxDim == 2
MaxBoxElems == 3
MaxBoxDepth == 1

\* Transposition step by step: rank of the array, size of a small dimension,
\* product of the small dimensions
MaxGatherRank == 3
MaxGatherDim == 2
MaxGatherElems == 4

\* Reversal: rank, dimension size, element count and largest element of the
\* array, and the depth of a call
MaxRevRank == 2
MaxRevDim == 3
MaxRevElems == 4
MaxRevVal == 1
MaxRevDepth == 2

\* Index searches: rank, dimension size, element count and largest element
\* of the array searched
MaxIdxRank == 2
MaxIdxDim == 2
MaxIdxElems == 4
MaxIdxVal == 1

\* Byte arrays handed to inv_bits: the largest element
MaxByte == 2

\* Shared buffers: rank, dimension size, element count and element value of
\* the arrays, and the depth of a call
MaxCowRank == 2
MaxCowDim == 2
MaxCowElems == 4
MaxCowVal == 1
MaxCowDepth == 1

---------------------------------------------------------------------------
(* Vec / slice primitives, 0-based indices as in the source *)

\* Vec::insert(index, x); the caller checks index <= len
VecInsert(s, index, x) ==
    SubSeq(s, 1, index) \o <<x>> \o SubSeq(s, index + 1, Len(s))

\* Vec::remove(index); the caller checks index < len
VecRemove(s, index) ==
    SubSeq(s, 1, index) \o SubSeq(s, index + 2, Len(s))

\* Vec::drain(lo..hi); the caller checks lo <= hi <= len
VecDrain(s, lo, hi) ==
    SubSeq(s, 1, lo) \o SubSeq(s, hi + 1, Len(s))

\* Vec::resize(n, x)
VecResize(s, n, x) ==
    IF n <= Len(s) THEN SubSeq(s, 1, n)
    ELSE s \o [i \in 1..(n - Len(s)) |-> x]

\* slice[lo..hi]
Slice(s, lo, hi) == SubSeq(s, lo + 1, hi)

\* slice::rotate_left(n); the caller checks n <= len
SliceRotateLeft(s, n) ==
    SubSeq(s, n + 1, Len(s)) \o SubSeq(s, 1, n)

\* slice::rotate_right(n); the caller checks n <= len
SliceRotateRight(s, n) ==
    SubSeq(s, Len(s) - n + 1, Len(s)) \o SubSeq(s, 1, Len(s) - n)

\* Iterator::product over usize
RECURSIVE Product(_)
Product(s) ==
    IF s = <<>> THEN 1 ELSE Head(s) * Product(Tail(s))

\* Ord for slices: lexicographic, a strict prefix is Less
RECURSIVE SliceCmp(_, _)
SliceCmp(a, b) ==
    IF a = <<>> /\ b = <<>> THEN "Equal"
    ELSE IF a = <<>> THEN "Less"
    ELSE IF b = <<>> THEN "Greater"
    ELSE IF Head(a) < Head(b) THEN "Less"
    ELSE IF Head(a) > Head(b) THEN "Greater"
    ELSE SliceCmp(Tail(a), Tail(b))

---------------------------------------------------------------------------
(* Shape (src/shape.rs) *)

EMPTY_MARKER == 0

Dimension(size, marker) == [size |-> size, marker |-> marker]

\* impl From<usize> for Dimension
DimensionFromUsize(size) == Dimension(size, EMPTY_MARKER)

Shape(sizes, markers) == [sizes |-> sizes, markers |-> markers]

\* Shape::scalar
scalar == Shape(<<>>, <<>>)

\* impl From<&[usize]> for Shape
ShapeFromSizes(sizes) == Shape(sizes, <<>>)

\* impl FromIterator<Dimension> for Shape: the loop body, then the final resize
RECURSIVE FromIterLoop(_, _, _, _)
FromIterLoop(dims, i, sizes, markers) ==
    IF i >= Len(dims) THEN Shape(sizes, markers)
    ELSE LET dim == dims[i + 1]
         IN  FromIterLoop(dims, i + 1, Append(sizes, dim.size),
                 IF dim.marker # EMPTY_MARKER
                 THEN Append(VecResize(markers, i, EMPTY_MARKER), dim.marker)
                 ELSE markers)

from_iter(dims) ==
    LET s == FromIterLoop(dims, 0, <<>>, <<>>)
    IN  IF s.markers # <<>>
        THEN Shape(s.sizes, VecResize(s.markers, Len(s.sizes), EMPTY_MARKER))
        ELSE s

\* Shape::drain(lo..hi)
drain(s, lo, hi) == Shape(VecDrain(s.sizes, lo, hi), s.markers)

\* Shape::push
push(s, dim) ==
    Shape(Append(s.sizes, dim.size),
          IF dim.marker # EMPTY_MARKER THEN Append(s.markers, dim.marker)
          ELSE IF s.markers # <<>> THEN Append(s.markers, EMPTY_MARKER)
          ELSE s.markers)

\* Shape::pop on a shape with at least one dimension: the shape left
pop(s) ==
    Shape(SubSeq(s.sizes, 1, Len(s.sizes) - 1),
          IF s.markers = <<>> THEN s.markers
          ELSE SubSeq(s.markers, 1, Len(s.markers) - 1))

\* Shape::insert panics when Vec::insert does
insert_panics(s, index, dim) ==
    \/ index > Len(s.sizes)
    \/ dim.marker # EMPTY_MARKER /\ index > Len(s.markers)
    \/ dim.marker = EMPTY_MARKER /\ s.markers # <<>> /\ index > Len(s.markers)

\* Shape::insert
insert(s, index, dim) ==
    Shape(VecInsert(s.sizes, index, dim.size),
          IF dim.marker # EMPTY_MARKER THEN VecInsert(s.markers, index, dim.marker)
          ELSE IF s.markers # <<>> THEN VecInsert(s.markers, index, EMPTY_MARKER)
          ELSE s.markers)

\* Shape::remove panics when Vec::remove does
remove_panics(s, index) ==
    \/ index >= Len(s.sizes)
    \/ s.markers # <<>> /\ index >= Len(s.markers)

\* Shape::remove: the shape left
remove(s, index) ==
    Shape(VecRemove(s.sizes, index),
          IF s.markers = <<>> THEN s.markers ELSE VecRemove(s.markers, index))

\* Shape::extend_from_shape panics when a slice index is out of range
extend_from_shape_panics(s, shape, lo, hi) ==
    \/ lo > hi
    \/ hi > Len(shape.sizes)
    \/ shape.markers # <<>> /\ hi > Len(shape.markers)

\* Shape::extend_from_shape(shape, lo..hi)
extend_from_shape(s, shape, lo, hi) ==
    Shape(s.sizes \o Slice(shape.sizes, lo, hi),
          IF shape.markers # <<>> THEN s.markers \o Slice(shape.markers, lo, hi)
          ELSE s.markers)

Min(a, b) == IF a <= b THEN a ELSE b

\* Shape::split_off(at): what stays in self; the caller checks at <= len
split_off_rest(s, at) ==
    Shape(SubSeq(s.sizes, 1, at), SubSeq(s.markers, 1, Min(at, Len(s.markers))))

\* Shape::split_off(at): the shape returned
split_off(s, at) ==
    Shape(SubSeq(s.sizes, at + 1, Len(s.sizes)),
          SubSeq(s.markers, Min(at, Len(s.markers)) + 1, Len(s.markers)))

\* Shape::rotate_left_at / rotate_right_at panic on a bad range or n > len
rotate_at_panics(s, lo, hi, n) ==
    \/ lo > hi
    \/ hi > Len(s.sizes)
    \/ n > hi - lo
    \/ s.markers # <<>> /\ hi > Len(s.markers)

\* Shape::rotate_left_at(lo..hi, n)
rotate_left_at(s, lo, hi, n) ==
    Shape(SubSeq(s.sizes, 1, lo) \o SliceRotateLeft(Slice(s.sizes, lo, hi), n)
              \o SubSeq(s.sizes, hi + 1, Len(s.sizes)),
          IF s.markers # <<>>
          THEN SubSeq(s.markers, 1, lo) \o SliceRotateLeft(Slice(s.markers, lo, hi), n)
                   \o SubSeq(s.markers, hi + 1, Len(s.markers))
          ELSE s.markers)

\* Shape::rotate_right_at(lo..hi, n)
rotate_right_at(s, lo, hi, n) ==
    Shape(SubSeq(s.sizes, 1, lo) \o SliceRotateRight(Slice(s.sizes, lo, hi), n)
              \o SubSeq(s.sizes, hi + 1, Len(s.sizes)),
          IF s.markers # <<>>
          THEN SubSeq(s.markers, 1, lo) \o SliceRotateRight(Slice(s.markers, lo, hi), n)
                   \o SubSeq(s.markers, hi + 1, Len(s.markers))
          ELSE s.markers)

\* impl Extend<usize> for Shape
extend(s, sizes) ==
    LET grown == s.sizes \o sizes
    IN  Shape(grown,
              IF s.markers # <<>> THEN VecResize(s.markers, Len(grown), EMPTY_MARKER)
              ELSE s.markers)

\* #[derive(PartialEq, Eq)] on Shape: every field is compared
ShapeEq(a, b) == a.sizes = b.sizes /\ a.markers = b.markers

\* #[derive(PartialOrd, Ord)] on Shape: fields in declaration order
ShapeCmp(a, b) ==
    IF SliceCmp(a.sizes, b.sizes) # "Equal" THEN SliceCmp(a.sizes, b.sizes)
    ELSE SliceCmp(a.markers, b.markers)

\* Shape::rank
rank(s) == Len(s.sizes)

\* Shape::length
length(s) == IF s.sizes = <<>> THEN 1 ELSE s.sizes[1]

---------------------------------------------------------------------------
(* Array<T> over numbers (src/algorithm/monadic.rs) *)

Array(shape, data) == [shape |-> shape, data |-> data]

\* Array::row_count
row_count(a) == length(a.shape)

\* Array::row_len: the product of the sizes after the first
row_len(a) ==
    IF a.shape.sizes = <<>> THEN 1 ELSE Product(Tail(a.shape.sizes))

\* Array::element_count
element_count(a) == Len(a.data)

\* Array::row_slice(row)
row_slice(a, row) == Slice(a.data, row * row_len(a), (row + 1) * row_len(a))

\* ArrayValue::array_cmp on numbers
array_cmp(x, y) ==
    IF x < y THEN "Less" ELSE IF x > y THEN "Greater" ELSE "Equal"

\* Value::fix
fix(a) == Array(insert(a.shape, 0, DimensionFromUsize(1)), a.data)

\* Value::inv_fix
inv_fix(a) ==
    LET sizes == a.shape.sizes
    IN  IF sizes # <<>> /\ sizes[1] = 1
        THEN Array(remove(a.shape, 0), a.data)
        ELSE IF Len(sizes) >= 2
        THEN Array(insert(drain(a.shape, 0, 2), 0,
                          DimensionFromUsize(sizes[1] * sizes[2])), a.data)
        ELSE a

\* deshape_depth that ignores its depth and collapses every dimension
deshape_depth_ignores_depth(a, depth0) ==
    Array(push(split_off_rest(a.shape, 0),
               DimensionFromUsize(Product(split_off(a.shape, 0).sizes))), a.data)

\* Array::deshape_depth
deshape_depth(a, depth0) ==
    LET depth == Min(depth0, rank(a.shape))
        deshaped == Product(split_off(a.shape, depth).sizes)
    IN  Array(push(split_off_rest(a.shape, depth), DimensionFromUsize(deshaped)),
              a.data)

\* first that drops the leading dimension of an empty array without filling
first_unfilled(a, fill) ==
    LET sizes == a.shape.sizes
    IN  IF sizes = <<>> THEN [status |-> "err", arr |-> a]
        ELSE IF sizes[1] = 0
        THEN [status |-> "ok", arr |-> Array(ShapeFromSizes(Tail(sizes)), a.data)]
        ELSE [status |-> "ok",
              arr |-> Array(remove(a.shape, 0), SubSeq(a.data, 1, Len(a.data) \div sizes[1]))]

\* Array::first; fill is <<>> (no fill value) or <<v>>
first(a, fill) ==
    LET sizes == a.shape.sizes
    IN  IF sizes = <<>> THEN [status |-> "err", arr |-> a]
        ELSE IF sizes[1] = 0
        THEN IF fill # <<>>
             THEN [status |-> "ok",
                   arr |-> Array(ShapeFromSizes(Tail(sizes)),
                                 a.data \o [i \in 1..row_len(a) |-> fill[1]])]
             ELSE [status |-> "fillerr", arr |-> a]
        ELSE [status |-> "ok",
              arr |-> Array(remove(a.shape, 0), SubSeq(a.data, 1, row_len(a)))]

\* last that truncates like first
last_truncates(a, fill) ==
    LET sizes == a.shape.sizes
    IN  IF sizes = <<>> THEN [status |-> "err", arr |-> a]
        ELSE IF sizes[1] = 0
        THEN IF fill # <<>>
             THEN [status |-> "ok",
                   arr |-> Array(ShapeFromSizes(Tail(sizes)),
                                 a.data \o [i \in 1..(Product(Tail(sizes))) |-> fill[1]])]
             ELSE [status |-> "fillerr", arr |-> a]
        ELSE [status |-> "ok",
              arr |-> Array(remove(a.shape, 0),
                            SubSeq(a.data, 1, Len(a.data) \div sizes[1]))]

\* Array::last
last(a, fill) ==
    LET sizes == a.shape.sizes
    IN  IF sizes = <<>> THEN [status |-> "err", arr |-> a]
        ELSE IF sizes[1] = 0
        THEN IF fill # <<>>
             THEN [status |-> "ok",
                   arr |-> Array(ShapeFromSizes(Tail(sizes)),
                                 a.data \o [i \in 1..row_len(a) |-> fill[1]])]
             ELSE [status |-> "fillerr", arr |-> a]
        ELSE LET prefix_len == Len(a.data) - row_len(a)
             IN  [status |-> "ok",
                  arr |-> Array(remove(a.shape, 0),
                                SubSeq(a.data, prefix_len + 1, Len(a.data)))]

\* a copy in place of the swap: the left region is overwritten, the right one kept
copy_nonoverlapping(data, left, right, count) ==
    [k \in 1..Len(data) |->
        IF left < k /\ k <= left + count THEN data[right + (k - left)]
        ELSE data[k]]

\* ptr::swap_nonoverlapping(left, right, count) on 0-based element offsets
swap_nonoverlapping(data, left, right, count) ==
    [k \in 1..Len(data) |->
        IF left < k /\ k <= left + count THEN data[right + (k - left)]
        ELSE IF right < k /\ k <= right + count THEN data[left + (k - right)]
        ELSE data[k]]

\* a loop that runs over every row instead of half of them
RECURSIVE ReverseChunkEveryRow(_, _, _, _)
ReverseChunkEveryRow(data, i, chunk_row_count, chunk_row_len) ==
    IF i >= chunk_row_count THEN data
    ELSE ReverseChunkEveryRow(
             swap_nonoverlapping(data, i * chunk_row_len,
                 (chunk_row_count - i - 1) * chunk_row_len, chunk_row_len),
             i + 1, chunk_row_count, chunk_row_len)

\* Array::reverse_depth: the loop `for i in 0..chunk_row_count / 2` on one chunk
RECURSIVE ReverseChunk(_, _, _, _)
ReverseChunk(data, i, chunk_row_count, chunk_row_len) ==
    IF i >= chunk_row_count \div 2 THEN data
    ELSE ReverseChunk(
             swap_nonoverlapping(data, i * chunk_row_len,
                 (chunk_row_count - i - 1) * chunk_row_len, chunk_row_len),
             i + 1, chunk_row_count, chunk_row_len)

\* Array::reverse_depth: the loop over data.chunks_exact_mut(chunk_size)
RECURSIVE ReverseChunks(_, _, _, _)
ReverseChunks(data, chunk_size, chunk_row_count, chunk_row_len) ==
    IF Len(data) < chunk_size THEN data
    ELSE ReverseChunk(SubSeq(data, 1, chunk_size), 0, chunk_row_count, chunk_row_len)
         \o ReverseChunks(SubSeq(data, chunk_size + 1, Len(data)),
                chunk_size, chunk_row_count, chunk_row_len)

\* Array::reverse_depth
reverse_depth(a, depth0) ==
    LET depth == Min(depth0, rank(a.shape))
        row_shape == Slice(a.shape.sizes, depth, rank(a.shape))
        chunk_size == Product(row_shape)
    IN  IF row_shape = <<>> THEN a
        ELSE IF chunk_size = 0 THEN a
        ELSE LET chunk_row_count == a.shape.sizes[depth + 1]
                 chunk_row_len == chunk_size \div chunk_row_count
             IN  Array(a.shape,
                       ReverseChunks(a.data, chunk_size, chunk_row_count, chunk_row_len))

Abs(n) == IF n < 0 THEN -n ELSE n

\* Iterator::take(n) / skip(n) on a sequence
Take(s, n) == SubSeq(s, 1, Min(n, Len(s)))
Skip(s, n) == SubSeq(s, Min(n, Len(s)) + 1, Len(s))
Rev(s) == [k \in 1..Len(s) |-> s[Len(s) + 1 - k]]

\* Array::transpose_depth: the gather into temp for one chunk,
\* temp[temp_chunk_i * subs + chunk_i] = data[chunk_i * stride + temp_chunk_i]
Gather(data, subs, stride) ==
    [k \in 1..Len(data) |->
        LET temp_chunk_i == (k - 1) \div subs
            chunk_i == (k - 1) % subs
        IN  data[chunk_i * stride + temp_chunk_i + 1]]

\* Array::transpose_depth: the loop over data_slice.chunks_exact_mut(product)
TransposeChunks(data, chunk_size, subs) ==
    IF Len(data) = chunk_size
    THEN <<>> \o Gather(data, subs, chunk_size \div subs)
    ELSE LET temps == <<>> \o [c \in 1..(Len(data) \div chunk_size) |->
                                  Gather(SubSeq(data, (c - 1) * chunk_size + 1,
                                                c * chunk_size),
                                         subs, chunk_size \div subs)]
         IN  <<>> \o [k \in 1..Len(data) |->
                         IF (k - 1) \div chunk_size < Len(temps)
                         THEN temps[((k - 1) \div chunk_size) + 1][((k - 1) % chunk_size) + 1]
                         ELSE data[k]]

\* self.shape[depth..].rotate_left(count) / rotate_right(count): the sizes only
RotateSizes(shape, depth, count, forward) ==
    Shape(SubSeq(shape.sizes, 1, depth)
              \o (IF forward
                  THEN SliceRotateLeft(Slice(shape.sizes, depth, rank(shape)), count)
                  ELSE SliceRotateRight(Slice(shape.sizes, depth, rank(shape)), count)),
          shape.markers)

\* Array::transpose_depth; slice::rotate_left/right panic when count > len
transpose_depth(a, depth0, amnt) ==
    LET depth == Min(depth0, rank(a.shape))
        count == Abs(amnt)
        forward == amnt > 0
        tail == Slice(a.shape.sizes, depth, rank(a.shape))
    IN  IF rank(a.shape) - depth < 2 \/ depth + count = rank(a.shape) \/ count = 0
        THEN [status |-> "ok", arr |-> a]
        ELSE IF \E k \in 1..Len(tail) : tail[k] = 0
        THEN IF count > Len(tail)
             THEN [status |-> "panic", arr |-> a]
             ELSE [status |-> "ok",
                   arr |-> Array(RotateSizes(a.shape, depth, count, forward), a.data)]
        ELSE LET subs == IF forward THEN Product(Take(tail, count))
                         ELSE Product(Skip(Rev(tail), count))
                 moved == TransposeChunks(a.data, Product(tail), subs)
             IN  IF count > Len(tail)
                 THEN [status |-> "panic", arr |-> Array(a.shape, moved)]
                 ELSE [status |-> "ok",
                       arr |-> Array(RotateSizes(a.shape, depth, count, forward), moved)]

\* rise's comparator deciding on the first element pair alone
RiseCmpFirstOnly(ra, rb) ==
    IF ra = <<>> \/ rb = <<>> THEN "Equal" ELSE array_cmp(Head(ra), Head(rb))

\* The comparator closure of rise: the first non-Equal element comparison of
\* row a against row b, Equal when there is none
RECURSIVE RiseCmp(_, _)
RiseCmp(ra, rb) ==
    IF ra = <<>> \/ rb = <<>> THEN "Equal"
    ELSE IF array_cmp(Head(ra), Head(rb)) # "Equal" THEN array_cmp(Head(ra), Head(rb))
    ELSE RiseCmp(Tail(ra), Tail(rb))

\* The comparator closure of fall: b.array_cmp(a) element by element
RECURSIVE FallCmp(_, _)
FallCmp(ra, rb) ==
    IF ra = <<>> \/ rb = <<>> THEN "Equal"
    ELSE IF array_cmp(Head(rb), Head(ra)) # "Equal" THEN array_cmp(Head(rb), Head(ra))
    ELSE FallCmp(Tail(ra), Tail(rb))

\* One step of a stable sort: x goes behind every element that is not Greater
RECURSIVE InsertStable(_, _, _)
InsertStable(sorted, x, cmp) ==
    IF sorted = <<>> THEN <<x>>
    ELSE IF cmp[<<sorted[Len(sorted)], x>>] = "Greater"
    THEN Append(InsertStable(SubSeq(sorted, 1, Len(sorted) - 1), x, cmp),
                sorted[Len(sorted)])
    ELSE Append(sorted, x)

\* rayon's par_sort_by: a stable sort; cmp maps a pair of items to an Ordering
RECURSIVE par_sort_by(_, _)
par_sort_by(s, cmp) ==
    IF s = <<>> THEN <<>>
    ELSE InsertStable(par_sort_by(SubSeq(s, 1, Len(s) - 1), cmp), s[Len(s)], cmp)

\* (0..row_count).collect()
RowIndices(a) == [k \in 1..row_count(a) |-> k - 1]

\* fall sorting with rise's comparator
fall_ascending(a) ==
    IF rank(a.shape) = 0 THEN [status |-> "err", out |-> <<>>]
    ELSE IF element_count(a) = 0 THEN [status |-> "ok", out |-> <<>>]
    ELSE LET rows == 0..(row_count(a) - 1)
             cmp == [p \in rows \X rows |->
                        RiseCmp(row_slice(a, p[1]), row_slice(a, p[2]))]
         IN  [status |-> "ok", out |-> par_sort_by(RowIndices(a), cmp)]

\* Array::fall
fall(a) ==
    IF rank(a.shape) = 0 THEN [status |-> "err", out |-> <<>>]
    ELSE IF element_count(a) = 0 THEN [status |-> "ok", out |-> <<>>]
    ELSE LET rows == 0..(row_count(a) - 1)
             cmp == [p \in rows \X rows |->
                        FallCmp(row_slice(a, p[1]), row_slice(a, p[2]))]
         IN  [status |-> "ok", out |-> par_sort_by(RowIndices(a), cmp)]

\* Array::rise
rise(a) ==
    IF rank(a.shape) = 0 THEN [status |-> "err", out |-> <<>>]
    ELSE IF element_count(a) = 0 THEN [status |-> "ok", out |-> <<>>]
    ELSE LET rows == 0..(row_count(a) - 1)
             cmp == [p \in rows \X rows |->
                        RiseCmp(row_slice(a, p[1]), row_slice(a, p[2]))]
         IN  [status |-> "ok", out |-> par_sort_by(RowIndices(a), cmp)]

\* new_data.extend_from_slice(self.row_slice(i)) for i in the index list
RECURSIVE CollectRows(_, _)
CollectRows(a, indices) ==
    IF indices = <<>> THEN <<>>
    ELSE row_slice(a, Head(indices)) \o CollectRows(a, Tail(indices))

Range(s) == {s[k] : k \in 1..Len(s)}

\* sort_up whose rank-1 path compares b against a
sort_up_rank1_descending(a) ==
    IF rank(a.shape) = 0 THEN [status |-> "err", arr |-> a]
    ELSE IF element_count(a) = 0 THEN [status |-> "ok", arr |-> a]
    ELSE IF rank(a.shape) = 1
    THEN LET cmp == [p \in Range(a.data) \X Range(a.data) |-> array_cmp(p[2], p[1])]
         IN  [status |-> "ok", arr |-> Array(a.shape, par_sort_by(a.data, cmp))]
    ELSE [status |-> "ok", arr |-> Array(a.shape, CollectRows(a, rise(a).out))]

\* Array::sort_up
sort_up(a) ==
    IF rank(a.shape) = 0 THEN [status |-> "err", arr |-> a]
    ELSE IF element_count(a) = 0 THEN [status |-> "ok", arr |-> a]
    ELSE IF rank(a.shape) = 1
    THEN LET cmp == [p \in Range(a.data) \X Range(a.data) |-> array_cmp(p[1], p[2])]
         IN  [status |-> "ok", arr |-> Array(a.shape, par_sort_by(a.data, cmp))]
    ELSE [status |-> "ok", arr |-> Array(a.shape, CollectRows(a, rise(a).out))]

\* Array::sort_down
sort_down(a) ==
    IF rank(a.shape) = 0 THEN [status |-> "err", arr |-> a]
    ELSE IF element_count(a) = 0 THEN [status |-> "ok", arr |-> a]
    ELSE IF rank(a.shape) = 1
    THEN LET cmp == [p \in Range(a.data) \X Range(a.data) |-> array_cmp(p[2], p[1])]
         IN  [status |-> "ok", arr |-> Array(a.shape, par_sort_by(a.data, cmp))]
    ELSE [status |-> "ok", arr |-> Array(a.shape, CollectRows(a, fall(a).out))]

\* a loop that remembers only the row before, so it drops adjacent repeats only
RECURSIVE DedupLoopAdjacent(_, _, _, _)
DedupLoopAdjacent(a, row, seen, deduped) ==
    IF row >= row_count(a) THEN deduped
    ELSE IF row_slice(a, row) \notin seen
    THEN DedupLoopAdjacent(a, row + 1, {row_slice(a, row)},
                           Append(deduped, row_slice(a, row)))
    ELSE DedupLoopAdjacent(a, row + 1, seen, deduped)

\* Array::deduplicate: the loop over row_slices, rows kept so far in deduped
RECURSIVE DedupLoop(_, _, _, _)
DedupLoop(a, row, seen, deduped) ==
    IF row >= row_count(a) THEN deduped
    ELSE IF row_slice(a, row) \notin seen
    THEN DedupLoop(a, row + 1, seen \cup {row_slice(a, row)},
                   Append(deduped, row_slice(a, row)))
    ELSE DedupLoop(a, row + 1, seen, deduped)

RECURSIVE Flatten(_)
Flatten(rows) ==
    IF rows = <<>> THEN <<>> ELSE Head(rows) \o Flatten(Tail(rows))

\* deduplicate that replaces the data and leaves the leading size as it was
deduplicate_stale_len(a) ==
    IF rank(a.shape) = 0 THEN a
    ELSE Array(a.shape, Flatten(DedupLoop(a, 0, {}, <<>>)))

\* Array::deduplicate
deduplicate(a) ==
    IF rank(a.shape) = 0 THEN a
    ELSE LET kept == DedupLoop(a, 0, {}, <<>>)
         IN  Array(Shape([a.shape.sizes EXCEPT ![1] = Len(kept)], a.shape.markers),
                   Flatten(kept))

\* classes.entry(row).or_insert(new_class): classes maps the rows seen to ids
ClassOf(classes, row) ==
    IF row \in DOMAIN classes THEN classes[row] ELSE Cardinality(DOMAIN classes)

\* a loop that gives every row a fresh id
RECURSIVE ClassifyLoopFresh(_, _, _, _)
ClassifyLoopFresh(a, row, classes, classified) ==
    IF row >= row_count(a) THEN classified
    ELSE ClassifyLoopFresh(a, row + 1, classes, Append(classified, row))

\* Array::classify: the loop over row_slices
RECURSIVE ClassifyLoop(_, _, _, _)
ClassifyLoop(a, row, classes, classified) ==
    IF row >= row_count(a) THEN classified
    ELSE LET r == row_slice(a, row)
             class == ClassOf(classes, r)
         IN  ClassifyLoop(a, row + 1,
                          [k \in DOMAIN classes \cup {r} |->
                              IF k \in DOMAIN classes THEN classes[k] ELSE class],
                          Append(classified, class))

\* Array::classify
classify(a) ==
    IF rank(a.shape) = 0 THEN [status |-> "err", out |-> <<>>]
    ELSE [status |-> "ok", out |-> ClassifyLoop(a, 0, <<>>, <<>>)]

\* Value::as_nats on a value of rank <= 1 holding naturals: its elements
as_nats(a) == a.data

\* i copies of x
Repeat(x, n) == [k \in 1..n |-> x]

\* Value::wher, rank <= 1: index i pushed counts[i] times
RECURSIVE WhereList(_, _)
WhereList(counts, i) ==
    IF i >= Len(counts) THEN <<>>
    ELSE Repeat(i, counts[i + 1]) \o WhereList(counts, i + 1)

\* coordinates unravelled with the first axis running fastest
RECURSIVE CoordinatesFirstAxisFastest(_, _)
CoordinatesFirstAxisFastest(sizes, i) ==
    IF sizes = <<>> THEN <<>>
    ELSE <<i % sizes[1]>> \o CoordinatesFirstAxisFastest(Tail(sizes), i \div sizes[1])

\* Value::wher, rank >= 2: the coordinates of flat index i, built by inserting
\* i % d at the front for each dimension d from the last to the first
RECURSIVE Coordinates(_, _)
Coordinates(sizes, i) ==
    IF sizes = <<>> THEN <<>>
    ELSE LET d == sizes[Len(sizes)]
         IN  Append(Coordinates(SubSeq(sizes, 1, Len(sizes) - 1), i \div d), i % d)

RECURSIVE WhereArray(_, _, _)
WhereArray(sizes, data, i) ==
    IF i >= Len(data) THEN <<>>
    ELSE Flatten(Repeat(Coordinates(sizes, i), data[i + 1])) \o WhereArray(sizes, data, i + 1)

\* counts.iter().fold(0, |acc, &b| acc.saturating_add(b)), below usize::MAX
RECURSIVE Sum(_)
Sum(s) == IF s = <<>> THEN 0 ELSE Head(s) + Sum(Tail(s))

\* Value::wher on an array of naturals
wher(a) ==
    IF rank(a.shape) <= 1
    THEN LET data == WhereList(as_nats(a), 0)
         IN  Array(ShapeFromSizes(<<Len(data)>>), data)
    ELSE Array(ShapeFromSizes(<<Sum(a.data), rank(a.shape)>>),
               WhereArray(a.shape.sizes, a.data, 0))

\* indices.iter().zip(indices.iter().skip(1)).all(|(&a, &b)| a <= b)
is_sorted(indices) == \A k \in 1..(Len(indices) - 1) : indices[k] <= indices[k + 1]

\* indices.iter().max()
MaxOf(S) == CHOOSE m \in S : \A x \in S : x <= m

\* while indices.get(j).is_some_and(|&n| n < i) { j += 1 }
RECURSIVE SkipBelow(_, _, _)
SkipBelow(indices, j, i) ==
    IF j < Len(indices) /\ indices[j + 1] < i THEN SkipBelow(indices, j + 1, i) ELSE j

\* while indices.get(j).copied() == Some(i) { j += 1; count += 1 }
RECURSIVE SkipEqual(_, _, _)
SkipEqual(indices, j, i) ==
    IF j < Len(indices) /\ indices[j + 1] = i THEN SkipEqual(indices, j + 1, i) ELSE j

\* a sorted pass that tests for one match where the code loops over all of them
RECURSIVE SortedCountsOnce(_, _, _, _)
SortedCountsOnce(indices, i, j, size) ==
    IF i >= size THEN <<>>
    ELSE LET j1 == SkipBelow(indices, j, i)
             j2 == IF j1 < Len(indices) /\ indices[j1 + 1] = i THEN j1 + 1 ELSE j1
         IN  <<j2 - j1>> \o SortedCountsOnce(indices, i + 1, j2, size)

\* Value::inverse_where, sorted indices: one pass with the cursor j
RECURSIVE SortedCounts(_, _, _, _)
SortedCounts(indices, i, j, size) ==
    IF i >= size THEN <<>>
    ELSE LET j1 == SkipBelow(indices, j, i)
             j2 == SkipEqual(indices, j1, i)
         IN  <<j2 - j1>> \o SortedCounts(indices, i + 1, j2, size)

\* Value::inverse_where, unsorted indices: a HashMap from index to count
HashCounts(indices, size) ==
    [k \in 1..size |-> Cardinality({p \in 1..Len(indices) : indices[p] = k - 1})]

\* a shape that takes the largest coordinate of each axis, without the 1
InverseWhereShapeTight(a) ==
    [axis \in 1..a.shape.sizes[2] |->
        IF row_count(a) = 0 THEN 0
        ELSE MaxOf({row_slice(a, r)[axis] : r \in 0..(row_count(a) - 1)})]

\* Value::inverse_where on [_, trailing]: the shape, 1 + the largest coordinate
\* of each axis over the rows (0 when there is no row)
InverseWhereShape(a) ==
    [axis \in 1..a.shape.sizes[2] |->
        IF row_count(a) = 0 THEN 0
        ELSE MaxOf({row_slice(a, r)[axis] + 1 : r \in 0..(row_count(a) - 1)})]

\* the flat index of a coordinate row: i += n * row_len; row_len *= d, from the
\* last axis to the first
RECURSIVE FlatIndex(_, _)
FlatIndex(sizes, key) ==
    IF sizes = <<>> THEN 0
    ELSE key[Len(sizes)]
         + sizes[Len(sizes)] * FlatIndex(SubSeq(sizes, 1, Len(sizes) - 1),
                                         SubSeq(key, 1, Len(sizes) - 1))

\* Value::inverse_where on a value of naturals
inverse_where(a) ==
    IF rank(a.shape) <= 1
    THEN LET indices == as_nats(a)
             size == IF indices = <<>> THEN 0 ELSE MaxOf(Range(indices)) + 1
             data == IF is_sorted(indices) THEN SortedCounts(indices, 0, 0, size)
                     ELSE HashCounts(indices, size)
         IN  [status |-> "ok", arr |-> Array(ShapeFromSizes(<<Len(data)>>), data)]
    ELSE IF rank(a.shape) = 2
    THEN LET shape == InverseWhereShape(a)
             data == [k \in 1..Product(shape) |->
                         Cardinality({r \in 0..(row_count(a) - 1) :
                                         FlatIndex(shape, row_slice(a, r)) = k - 1})]
         IN  [status |-> "ok", arr |-> Array(ShapeFromSizes(shape), data)]
    ELSE [status |-> "err", arr |-> a]

---------------------------------------------------------------------------
(* Numbers of the bits codec.  An f64 is [neg, frac, mag]: its sign,       *)
(* whether it has a fractional part, and the integer part of its magnitude *)
(* as the set of the positions of its one bits (5 is {0, 2}), so that      *)
(* integers up to and beyond 2^128 are exact.  A u128 is such a set within *)
(* 0..127, a u8 of the bit array is the integer 0 or 1.                    *)

U128_BITS == 128
F64_MANTISSA_DIGITS == 53

F64(neg, frac, mag) == [neg |-> neg, frac |-> frac, mag |-> mag]

\* The one bits of a small natural
NatBits(n) == {j \in 0..30 : (n \div (2 ^ j)) % 2 = 1}

\* The highest one bit of a nonzero integer
HighBit(mag) == CHOOSE h \in mag : \A p \in mag : p <= h

\* a < b on integers given by their one bits
NatLess(a, b) ==
    \E p \in b \ a : \A q \in (a \ b) : q < p

\* n as u128 on an f64 without fractional part: negative saturates to 0, above
\* u128::MAX saturates to u128::MAX
F64ToU128(x) ==
    IF x.neg THEN {}
    ELSE IF \E p \in x.mag : p >= U128_BITS THEN 0..(U128_BITS - 1)
    ELSE x.mag

\* add 2^p to an integer: the carry runs up to the first zero bit q at or above p
AddBit(mag, p) ==
    LET q == CHOOSE z \in p..(HighBit(mag \cup {p}) + 1) :
                 z \notin mag /\ \A y \in p..(z - 1) : y \in mag
    IN  (mag \ (p..(q - 1))) \cup {q}

\* n as f64 on a u128: round to nearest, ties to even, at 53 significant bits
U128ToF64(n) ==
    IF n = {} THEN F64(FALSE, FALSE, {})
    ELSE LET low == HighBit(n) - (F64_MANTISSA_DIGITS - 1)
             kept == {p \in n : p >= low}
             half == (low - 1) \in n
             sticky == \E p \in n : p < low - 1
         IN  F64(FALSE, FALSE,
                 IF half /\ (sticky \/ low \in n) THEN AddBit(kept, low) ELSE kept)

\* nats.iter().max() of a non-empty list
MaxNatOf(nats) ==
    CHOOSE m \in Range(nats) : \A x \in Range(nats) : ~NatLess(m, x)

\* while max != 0 { max_bits += 1; max >>= 1 }: one round for every bit up to
\* the highest one bit
BitLength(max) == IF max = {} THEN 0 ELSE HighBit(max) + 1

\* bits that stores bit j at position max_bits - 1 - j of the new axis
bits_msb_first(a) ==
    LET nats == [k \in 1..Len(a.data) |-> F64ToU128(a.data[k])]
        max_bits == IF nats = <<>> THEN 0 ELSE BitLength(MaxNatOf(nats))
    IN  [status |-> "ok",
         arr |-> Array(push(a.shape, DimensionFromUsize(max_bits)),
                       [index \in 1..(Len(nats) * max_bits) |->
                           LET i == (index - 1) \div max_bits
                               j == max_bits - 1 - ((index - 1) % max_bits)
                           IN  IF j \in nats[i + 1] THEN 1 ELSE 0])]

\* Array<f64>::bits
bits(a) ==
    IF \E k \in 1..Len(a.data) : a.data[k].frac
    THEN [status |-> "err", arr |-> a]
    ELSE LET nats == [k \in 1..Len(a.data) |-> F64ToU128(a.data[k])]
         IN  IF nats = <<>>
             THEN [status |-> "ok",
                   arr |-> Array(push(a.shape, DimensionFromUsize(0)), <<>>)]
             ELSE LET max_bits == BitLength(MaxNatOf(nats))
                  IN  [status |-> "ok",
                       arr |-> Array(push(a.shape, DimensionFromUsize(max_bits)),
                                     [index \in 1..(Len(nats) * max_bits) |->
                                         LET i == (index - 1) \div max_bits
                                             j == (index - 1) % max_bits
                                         IN  IF j \in nats[i + 1] THEN 1 ELSE 0])]

\* n |= 1u128.overflowing_shl(j as u32).0 over the one bits of a bit string:
\* the shift amount wraps at the width of u128
DecodeBits(bools) == {(j - 1) % U128_BITS : j \in {k \in 1..Len(bools) : bools[k]}}

\* Array<u8>::inverse_bits
inverse_bits(a) ==
    IF \E k \in 1..Len(a.data) : a.data[k] > 1
    THEN [status |-> "err", arr |-> a]
    ELSE LET bools == [k \in 1..Len(a.data) |-> a.data[k] # 0]
         IN  IF bools = <<>>
             THEN IF a.shape.sizes = <<>>
                  THEN [status |-> "ok", arr |-> Array(scalar, <<F64(FALSE, FALSE, {})>>)]
                  ELSE LET shape == pop(a.shape)
                       IN  [status |-> "ok",
                            arr |-> Array(shape, Repeat(F64(FALSE, FALSE, {}),
                                                        Product(shape.sizes)))]
             ELSE IF rank(a.shape) = 0
             THEN [status |-> "ok",
                   arr |-> Array(scalar,
                                 <<F64(FALSE, FALSE, IF bools[1] THEN {0} ELSE {})>>)]
             ELSE LET shape == pop(a.shape)
                      bit_string_len == a.shape.sizes[Len(a.shape.sizes)]
                  IN  [status |-> "ok",
                       arr |-> Array(shape,
                                     [i \in 1..(Len(a.data) \div bit_string_len) |->
                                         U128ToF64(DecodeBits(
                                             SubSeq(bools, (i - 1) * bit_string_len + 1,
                                                    i * bit_string_len)))])]

---------------------------------------------------------------------------
(* range (src/algorithm/monadic.rs) *)

\* 2usize.pow(30) / size_of::<f64>()
RangeCeiling == (2 ^ 30) \div 8

\* len.overflowing_mul(item) overflowed or went above the ceiling; an overflow
\* is a product above the ceiling, so the test divides where the code multiplies
TooLarge(len, item) == item > RangeCeiling \div len

\* range: the guard loop over the sizes, len the product so far; the length
\* of the result, or -1 for the sizing error
RECURSIVE RangeLen(_, _)
RangeLen(len, items) ==
    IF items = <<>> THEN len
    ELSE IF TooLarge(len, Head(items)) THEN -1
    ELSE RangeLen(len * Head(items), Tail(items))

\* an odometer that advances the first axis fastest
RECURSIVE RangeStepFirstAxis(_, _, _)
RangeStepFirstAxis(curr, shape, j) ==
    LET k == Len(shape) - 1 - j
        bumped == [curr EXCEPT ![k + 1] = @ + 1]
    IN  IF bumped[k + 1] = shape[k + 1]
        THEN IF j = 0 THEN [curr |-> [bumped EXCEPT ![k + 1] = 0], done |-> TRUE]
             ELSE RangeStepFirstAxis([bumped EXCEPT ![k + 1] = 0], shape, j - 1)
        ELSE [curr |-> bumped, done |-> FALSE]

\* range: the inner loop, curr[j] += 1 with carry towards axis 0
RECURSIVE RangeStep(_, _, _)
RangeStep(curr, shape, j) ==
    LET bumped == [curr EXCEPT ![j + 1] = @ + 1]
    IN  IF bumped[j + 1] = shape[j + 1]
        THEN IF j = 0 THEN [curr |-> [bumped EXCEPT ![j + 1] = 0], done |-> TRUE]
             ELSE RangeStep([bumped EXCEPT ![j + 1] = 0], shape, j - 1)
        ELSE [curr |-> bumped, done |-> FALSE]

\* range: the outer loop, one multi-index written per round
RECURSIVE RangeLoop(_, _, _)
RangeLoop(shape, curr, data) ==
    LET step == RangeStep(curr, shape, Len(shape) - 1)
    IN  IF step.done THEN data \o curr
        ELSE RangeLoop(shape, step.curr, data \o curr)

\* The result of range: built tells whether the model holds its buffer; a
\* buffer longer than the model builds is known by its length len only
RangeResult(status, sizes, len, built, data) ==
    [status |-> status, shape |-> ShapeFromSizes(sizes), len |-> len,
     built |-> built, data |-> data]

\* range(shape) of a non-empty shape, then shape.push(shape.len())
range(shape) ==
    LET sizes == Append(shape, Len(shape))
    IN  IF \E k \in 1..Len(shape) : shape[k] = 0
        THEN RangeResult("ok", sizes, 0, TRUE, <<>>)
        ELSE LET len == RangeLen(Len(shape), shape)
             IN  IF len = -1 THEN RangeResult("err", <<>>, 0, FALSE, <<>>)
                 ELSE IF len > MaxBuilt THEN RangeResult("ok", sizes, len, FALSE, <<>>)
                 ELSE RangeResult("ok", sizes, len, TRUE,
                                  RangeLoop(shape, <<>> \o Repeat(0, Len(shape)), <<>>))

\* Value::range on a value of naturals of rank <= 1
value_range(a) ==
    LET shape == as_nats(a)
    IN  IF rank(a.shape) = 0
        THEN IF shape[1] > MaxBuilt
             THEN RangeResult("ok", <<shape[1]>>, shape[1], FALSE, <<>>)
             ELSE RangeResult("ok", <<shape[1]>>, shape[1], TRUE,
                              [k \in 1..shape[1] |-> k - 1])
        ELSE IF shape = <<>> THEN RangeResult("ok", <<0>>, 0, TRUE, <<>>)
        ELSE range(shape)

---------------------------------------------------------------------------
(* The Shape state machine *)

Markers == 0..MaxMarker
Dims == {Dimension(size, marker) : size \in 1..MaxSize, marker \in Markers}

SeqsUpTo(S, n) == UNION {[1..k -> S] : k \in 0..n}

\* Every shape FromIterator<Dimension> builds from a short dimension list
InitShapes == {from_iter(dims) : dims \in SeqsUpTo(Dims, MaxInitLen)}

SCall(op, status) ==
    [op |-> op, status |-> status, other |-> scalar, eq |-> FALSE, ord |-> "Equal"]

\* The array of the idle array machine: a scalar 0
IdleArray == [shape |-> scalar, data |-> <<0>>]

\* No call yet
NoCall ==
    [op |-> "new", depth |-> 0, amnt |-> 0, fill |-> <<>>, status |-> "ok",
     out |-> <<>>, before |-> IdleArray]

ShapeInit ==
    /\ shp \in InitShapes
    /\ split = scalar
    /\ scall = SCall("from_iter", "ok")
    /\ arr = IdleArray
    /\ call = NoCall
    /\ prior = NoCall

ShapeRunning == scall.status # "panic"

\* Room for n more dimensions (and their markers) within the model's bound
ShapeRoom(n) ==
    /\ rank(shp) + n <= MaxShapeLen
    /\ Len(shp.markers) + n <= MaxShapeLen

ShapePush(dim) ==
    /\ ShapeRunning
    /\ ShapeRoom(1)
    /\ shp' = push(shp, dim)
    /\ scall' = SCall("push", "ok")
    /\ split' = scalar
    /\ UNCHANGED arrayVars

ShapePop ==
    /\ ShapeRunning
    /\ shp' = IF shp.sizes = <<>> THEN shp ELSE pop(shp)
    /\ scall' = SCall("pop", "ok")
    /\ split' = scalar
    /\ UNCHANGED arrayVars

ShapeInsert(index, dim) ==
    /\ ShapeRunning
    /\ ShapeRoom(1)
    /\ index \in 0..rank(shp)
    /\ IF insert_panics(shp, index, dim)
       THEN shp' = shp /\ scall' = SCall("insert", "panic")
       ELSE shp' = insert(shp, index, dim) /\ scall' = SCall("insert", "ok")
    /\ split' = scalar
    /\ UNCHANGED arrayVars

ShapeRemove(index) ==
    /\ ShapeRunning
    /\ index \in 0..(rank(shp) - 1)
    /\ IF remove_panics(shp, index)
       THEN shp' = shp /\ scall' = SCall("remove", "panic")
       ELSE shp' = remove(shp, index) /\ scall' = SCall("remove", "ok")
    /\ split' = scalar
    /\ UNCHANGED arrayVars

ShapeDrain(lo, hi) ==
    /\ ShapeRunning
    /\ lo \in 0..rank(shp)
    /\ hi \in lo..rank(shp)
    /\ shp' = drain(shp, lo, hi)
    /\ scall' = SCall("drain", "ok")
    /\ split' = scalar
    /\ UNCHANGED arrayVars

ShapeSplitOff(at) ==
    /\ ShapeRunning
    /\ at \in 0..rank(shp)
    /\ shp' = split_off_rest(shp, at)
    /\ split' = split_off(shp, at)
    /\ scall' = SCall("split_off", "ok")
    /\ UNCHANGED arrayVars

ShapeExtendFromShape(shape, lo, hi) ==
    /\ ShapeRunning
    /\ lo \in 0..rank(shape)
    /\ hi \in lo..rank(shape)
    /\ ShapeRoom(hi - lo)
    /\ IF extend_from_shape_panics(shp, shape, lo, hi)
       THEN shp' = shp /\ scall' = SCall("extend_from_shape", "panic")
       ELSE /\ shp' = extend_from_shape(shp, shape, lo, hi)
            /\ scall' = SCall("extend_from_shape", "ok")
    /\ split' = scalar
    /\ UNCHANGED arrayVars

ShapeExtend(sizes) ==
    /\ ShapeRunning
    /\ ShapeRoom(Len(sizes))
    /\ shp' = extend(shp, sizes)
    /\ scall' = SCall("extend", "ok")
    /\ split' = scalar
    /\ UNCHANGED arrayVars

ShapeRotateLeftAt(lo, hi, n) ==
    /\ ShapeRunning
    /\ lo \in 0..rank(shp)
    /\ hi \in lo..rank(shp)
    /\ n \in 0..(hi - lo)
    /\ IF rotate_at_panics(shp, lo, hi, n)
       THEN shp' = shp /\ scall' = SCall("rotate_left_at", "panic")
       ELSE /\ shp' = rotate_left_at(shp, lo, hi, n)
            /\ scall' = SCall("rotate_left_at", "ok")
    /\ split' = scalar
    /\ UNCHANGED arrayVars

ShapeRotateRightAt(lo, hi, n) ==
    /\ ShapeRunning
    /\ lo \in 0..rank(shp)
    /\ hi \in lo..rank(shp)
    /\ n \in 0..(hi - lo)
    /\ IF rotate_at_panics(shp, lo, hi, n)
       THEN shp' = shp /\ scall' = SCall("rotate_right_at", "panic")
       ELSE /\ shp' = rotate_right_at(shp, lo, hi, n)
            /\ scall' = SCall("rotate_right_at", "ok")
    /\ split' = scalar
    /\ UNCHANGED arrayVars

\* shp == other and shp.cmp(&other) against a freshly built shape
ShapeCompare(other) ==
    /\ ShapeRunning
    /\ scall' = [op |-> "cmp", status |-> "ok", other |-> other,
                 eq |-> ShapeEq(shp, other), ord |-> ShapeCmp(shp, other)]
    /\ split' = scalar
    /\ UNCHANGED <<shp, arrayVars>>

ShapeNext ==
    \/ \E dim \in Dims : ShapePush(dim)
    \/ ShapePop
    \/ \E index \in 0..MaxShapeLen, dim \in Dims : ShapeInsert(index, dim)
    \/ \E index \in 0..MaxShapeLen : ShapeRemove(index)
    \/ \E lo, hi \in 0..MaxShapeLen : ShapeDrain(lo, hi)
    \/ \E at \in 0..MaxShapeLen : ShapeSplitOff(at)
    \/ \E shape \in InitShapes, lo, hi \in 0..MaxInitLen :
           ShapeExtendFromShape(shape, lo, hi)
    \/ \E sizes \in SeqsUpTo(1..MaxSize, 1) : ShapeExtend(sizes)
    \/ \E lo, hi, n \in 0..MaxShapeLen : ShapeRotateLeftAt(lo, hi, n)
    \/ \E lo, hi, n \in 0..MaxShapeLen : ShapeRotateRightAt(lo, hi, n)
    \/ \E other \in InitShapes : ShapeCompare(other)

SpecShape == ShapeInit /\ [][ShapeNext]_vars

---------------------------------------------------------------------------
(* The array state machine *)

Vals == 0..MaxVal
Fills == {<<>>} \cup {<<v>> : v \in Vals}

\* Every unmarked shape of bounded rank and element count
InitSizes == {sizes \in SeqsUpTo(0..MaxDim, MaxInitRank) : Product(sizes) <= MaxElems}

\* Array::new: a shape and a buffer of its element count
InitArrays ==
    UNION {{Array(ShapeFromSizes(sizes), data) : data \in [1..Product(sizes) -> Vals]} :
              sizes \in InitSizes}

Call(op, depth, amnt, fill, status, out) ==
    [op |-> op, depth |-> depth, amnt |-> amnt, fill |-> fill, status |-> status,
     out |-> out, before |-> arr]

\* The last call was the same operation at the same depth with the opposite
\* amount, and returned: this call completes a round trip
ClosesRoundTrip(op, depth, amnt) ==
    /\ call.op = op
    /\ call.status = "ok"
    /\ call.depth = depth
    /\ call.amnt = -amnt

Init ==
    /\ arr \in InitArrays
    /\ call = NoCall
    /\ prior = NoCall
    /\ shp = scalar
    /\ split = scalar
    /\ scall = SCall("from_iter", "ok")

\* A panic aborts the program
Running == call.status # "panic"

Fix ==
    /\ Running
    /\ rank(arr.shape) < MaxRank
    /\ arr' = fix(arr)
    /\ call' = Call("fix", 0, 0, <<>>, "ok", <<>>)
    /\ prior' = NoCall
    /\ UNCHANGED shapeVars

InvFix ==
    /\ Running
    /\ arr' = inv_fix(arr)
    /\ call' = Call("inv_fix", 0, 0, <<>>, "ok", <<>>)
    /\ prior' = NoCall
    /\ UNCHANGED shapeVars

DeshapeDepth(depth) ==
    /\ Running
    /\ Min(depth, rank(arr.shape)) < MaxRank
    /\ arr' = deshape_depth(arr, depth)
    /\ call' = Call("deshape_depth", depth, 0, <<>>, "ok", <<>>)
    /\ prior' = NoCall
    /\ UNCHANGED shapeVars

First(fill) ==
    /\ Running
    /\ LET r == first(arr, fill)
       IN  arr' = r.arr /\ call' = Call("first", 0, 0, fill, r.status, <<>>)
    /\ prior' = NoCall
    /\ UNCHANGED shapeVars

Last(fill) ==
    /\ Running
    /\ LET r == last(arr, fill)
       IN  arr' = r.arr /\ call' = Call("last", 0, 0, fill, r.status, <<>>)
    /\ prior' = NoCall
    /\ UNCHANGED shapeVars

ReverseDepth(depth) ==
    /\ Running
    /\ arr' = reverse_depth(arr, depth)
    /\ call' = Call("reverse_depth", depth, 0, <<>>, "ok", <<>>)
    /\ prior' = IF ClosesRoundTrip("reverse_depth", depth, 0) THEN call ELSE NoCall
    /\ UNCHANGED shapeVars

TransposeDepth(depth, amnt) ==
    /\ Running
    /\ LET r == transpose_depth(arr, depth, amnt)
       IN  /\ arr' = r.arr
           /\ call' = Call("transpose_depth", depth, amnt, <<>>, r.status, <<>>)
    /\ prior' = IF ClosesRoundTrip("transpose_depth", depth, amnt) THEN call ELSE NoCall
    /\ UNCHANGED shapeVars

Rise ==
    /\ Running
    /\ LET r == rise(arr)
       IN  call' = Call("rise", 0, 0, <<>>, r.status, r.out)
    /\ prior' = NoCall
    /\ UNCHANGED <<arr, shapeVars>>

Fall ==
    /\ Running
    /\ LET r == fall(arr)
       IN  call' = Call("fall", 0, 0, <<>>, r.status, r.out)
    /\ prior' = NoCall
    /\ UNCHANGED <<arr, shapeVars>>

SortUp ==
    /\ Running
    /\ LET r == sort_up(arr)
       IN  arr' = r.arr /\ call' = Call("sort_up", 0, 0, <<>>, r.status, <<>>)
    /\ prior' = NoCall
    /\ UNCHANGED shapeVars

SortDown ==
    /\ Running
    /\ LET r == sort_down(arr)
       IN  arr' = r.arr /\ call' = Call("sort_down", 0, 0, <<>>, r.status, <<>>)
    /\ prior' = NoCall
    /\ UNCHANGED shapeVars

Deduplicate ==
    /\ Running
    /\ arr' = deduplicate(arr)
    /\ call' = Call("deduplicate", 0, 0, <<>>, "ok", <<>>)
    /\ prior' = IF call.op = "deduplicate" THEN call ELSE NoCall
    /\ UNCHANGED shapeVars

Next ==
    \/ Fix
    \/ InvFix
    \/ \E depth \in 0..MaxDepth : DeshapeDepth(depth)
    \/ \E fill \in Fills : First(fill)
    \/ \E fill \in Fills : Last(fill)
    \/ \E depth \in 0..MaxDepth : ReverseDepth(depth)
    \/ \E depth \in 0..MaxDepth, amnt \in (-MaxAmnt)..MaxAmnt : TransposeDepth(depth, amnt)
    \/ Rise
    \/ Fall
    \/ SortUp
    \/ SortDown
    \/ Deduplicate

Spec == Init /\ [][Next]_vars

---------------------------------------------------------------------------
(* The counts state machine: classify, where and inverse_where on one      *)
(* array of naturals                                                       *)

CountSizes ==
    {sizes \in SeqsUpTo(0..MaxCountDim, MaxCountRank) : Product(sizes) <= MaxCountElems}

CountArrays ==
    UNION {{Array(ShapeFromSizes(sizes), data) :
               data \in [1..Product(sizes) -> 0..MaxCount]} : sizes \in CountSizes}

CountsInit ==
    /\ arr \in CountArrays
    /\ call = NoCall
    /\ prior = NoCall
    /\ shp = scalar
    /\ split = scalar
    /\ scall = SCall("from_iter", "ok")

\* The model follows an array while it is no larger than where makes an
\* initial array
CountsBounded == Len(arr.data) <= MaxCountElems * MaxCount * MaxCountRank

Classify ==
    /\ CountsBounded
    /\ LET r == classify(arr)
       IN  call' = Call("classify", 0, 0, <<>>, r.status, r.out)
    /\ prior' = NoCall
    /\ UNCHANGED <<arr, shapeVars>>

Wher ==
    /\ CountsBounded
    /\ arr' = wher(arr)
    /\ call' = Call("where", 0, 0, <<>>, "ok", <<>>)
    /\ prior' = NoCall
    /\ UNCHANGED shapeVars

InverseWhere ==
    /\ CountsBounded
    /\ LET r == inverse_where(arr)
       IN  arr' = r.arr /\ call' = Call("inverse_where", 0, 0, <<>>, r.status, <<>>)
    /\ prior' = IF call.op = "where" THEN call ELSE NoCall
    /\ UNCHANGED shapeVars

CountsNext == Classify \/ Wher \/ InverseWhere

SpecCounts == CountsInit /\ [][CountsNext]_vars

---------------------------------------------------------------------------
(* The bits state machine: bits on one array of f64, inverse_bits on the   *)
(* bit array it returns                                                    *)

\* Small naturals; 2^127, the largest f64 below 2^128, 2^128 and 2^129; -1 and 0.5
BitsNaturals ==
    {F64(FALSE, FALSE, NatBits(n)) : n \in 0..MaxNat}
        \cup {F64(FALSE, FALSE, {U128_BITS - 1}),
              F64(FALSE, FALSE, (U128_BITS - F64_MANTISSA_DIGITS)..(U128_BITS - 1)),
              F64(FALSE, FALSE, {U128_BITS}),
              F64(FALSE, FALSE, {U128_BITS + 1})}

BitsVals == BitsNaturals \cup {F64(TRUE, FALSE, {0}), F64(FALSE, TRUE, {})}

BitsSizes ==
    {sizes \in SeqsUpTo(0..MaxBitsDim, MaxBitsRank) : Product(sizes) <= MaxBitsElems}

BitsArrays ==
    UNION {{Array(ShapeFromSizes(sizes), data) :
               data \in [1..Product(sizes) -> BitsVals]} : sizes \in BitsSizes}

BitsInit ==
    /\ arr \in BitsArrays
    /\ call = NoCall
    /\ prior = NoCall
    /\ shp = scalar
    /\ split = scalar
    /\ scall = SCall("from_iter", "ok")

\* arr is the Array<u8> a successful bits returned
HoldsBytes == call.op = "bits" /\ call.status = "ok"

Bits ==
    /\ ~HoldsBytes
    /\ LET r == bits(arr)
       IN  arr' = r.arr /\ call' = Call("bits", 0, 0, <<>>, r.status, <<>>)
    /\ prior' = NoCall
    /\ UNCHANGED shapeVars

InverseBits ==
    /\ HoldsBytes
    /\ LET r == inverse_bits(arr)
       IN  arr' = r.arr /\ call' = Call("inverse_bits", 0, 0, <<>>, r.status, <<>>)
    /\ prior' = call
    /\ UNCHANGED shapeVars

BitsNext == Bits \/ InverseBits

SpecBits == BitsInit /\ [][BitsNext]_vars

---------------------------------------------------------------------------
(* The range state machine: range on one request, a scalar or a list of    *)
(* naturals                                                                *)

\* Small sizes, and sizes at half the ceiling, at it and just above it
RangeSizes ==
    (0..MaxRangeSize) \cup {RangeCeiling \div 2, RangeCeiling, RangeCeiling + 1}

RangeRequests ==
    {Array(scalar, <<m>>) : m \in RangeSizes}
        \cup {Array(ShapeFromSizes(<<Len(sizes)>>), sizes) :
                  sizes \in SeqsUpTo(RangeSizes, MaxRangeLen)}

RangeInit ==
    /\ arr \in RangeRequests
    /\ call = NoCall
    /\ prior = NoCall
    /\ shp = scalar
    /\ split = scalar
    /\ scall = SCall("from_iter", "ok")

RangeOp ==
    /\ LET r == value_range(arr)
       IN  call' = Call("range", 0, 0, <<>>, r.status, r)
    /\ UNCHANGED <<arr, prior, shapeVars>>

RangeNext == RangeOp

SpecRange == RangeInit /\ [][RangeNext]_vars

---------------------------------------------------------------------------
(* Value: the dispatch over element kinds, recursing into boxed arrays *)

\* Value::Num(array) and Value::Box(array of Boxed(Value))
Num(a) == [kind |-> "num", arr |-> a]
Box(a) == [kind |-> "box", arr |-> a]

\* Array::as_scalar_mut: Some exactly when the array has rank 0
is_scalar(a) == rank(a.shape) = 0

\* Value::reverse_depth that passes its depth undiminished to the contained
\* values of a boxed list
RECURSIVE value_reverse_depth_keeps_depth(_, _)
value_reverse_depth_keeps_depth(v, depth) ==
    IF v.kind # "box" THEN Num(reverse_depth(v.arr, depth))
    ELSE IF is_scalar(v.arr) \/ (depth > 0 /\ rank(v.arr.shape) <= 1)
    THEN Box(Array(v.arr.shape,
                   <<>> \o [i \in 1..Len(v.arr.data) |->
                               value_reverse_depth_keeps_depth(v.arr.data[i], depth)]))
    ELSE Box(reverse_depth(v.arr, depth))

\* Value::reverse_depth
RECURSIVE value_reverse_depth(_, _)
value_reverse_depth(v, depth) ==
    IF v.kind # "box" THEN Num(reverse_depth(v.arr, depth))
    ELSE IF is_scalar(v.arr)
    THEN Box(Array(v.arr.shape, <<value_reverse_depth(v.arr.data[1], depth)>>))
    ELSE IF depth > 0 /\ rank(v.arr.shape) <= 1
    THEN Box(Array(v.arr.shape,
                   <<>> \o [i \in 1..Len(v.arr.data) |->
                               value_reverse_depth(v.arr.data[i], depth - 1)]))
    ELSE Box(reverse_depth(v.arr, depth))

\* Value::deshape_depth
RECURSIVE value_deshape_depth(_, _)
value_deshape_depth(v, depth) ==
    IF v.kind # "box" THEN Num(deshape_depth(v.arr, depth))
    ELSE IF is_scalar(v.arr)
    THEN Box(Array(v.arr.shape, <<value_deshape_depth(v.arr.data[1], depth)>>))
    ELSE IF depth > 0 /\ rank(v.arr.shape) <= 1
    THEN Box(Array(v.arr.shape,
                   <<>> \o [i \in 1..Len(v.arr.data) |->
                               value_deshape_depth(v.arr.data[i], depth - 1)]))
    ELSE Box(deshape_depth(v.arr, depth))

\* The loop over b.data.as_mut_slice(): a panic in one contained value leaves
\* the later ones untouched
FirstPanic(results) ==
    IF \E i \in 1..Len(results) : results[i].status = "panic"
    THEN CHOOSE i \in 1..Len(results) :
             /\ results[i].status = "panic"
             /\ \A j \in 1..(i - 1) : results[j].status # "panic"
    ELSE 0

\* Value::transpose_depth
RECURSIVE value_transpose_depth(_, _, _)
value_transpose_depth(v, depth, amnt) ==
    IF v.kind # "box"
    THEN LET r == transpose_depth(v.arr, depth, amnt)
         IN  [status |-> r.status, val |-> Num(r.arr)]
    ELSE IF is_scalar(v.arr)
    THEN LET r == value_transpose_depth(v.arr.data[1], depth, amnt)
         IN  [status |-> r.status, val |-> Box(Array(v.arr.shape, <<r.val>>))]
    ELSE IF depth > 0 /\ rank(v.arr.shape) <= 1
    THEN LET results == [i \in 1..Len(v.arr.data) |->
                            value_transpose_depth(v.arr.data[i], depth - 1, amnt)]
             stop == FirstPanic(results)
         IN  [status |-> IF stop = 0 THEN "ok" ELSE "panic",
              val |-> Box(Array(v.arr.shape,
                                <<>> \o [i \in 1..Len(v.arr.data) |->
                                            IF stop = 0 \/ i <= stop
                                            THEN results[i].val
                                            ELSE v.arr.data[i]]))]
    ELSE LET r == transpose_depth(v.arr, depth, amnt)
         IN  [status |-> r.status, val |-> Box(r.arr)]

---------------------------------------------------------------------------
(* The transposition state machine: transpose_depth on one array, taken as *)
(* one step when the gather runs in order and one chunk of temp at a time  *)
(* when it runs in parallel                                                *)

\* if subs > 500
PAR_THRESHOLD == 500

\* What transpose_depth computes before it touches the data
TransposePlan(a, depth0, amnt) ==
    LET depth == Min(depth0, rank(a.shape))
        count == Abs(amnt)
        forward == amnt > 0
        tail == Slice(a.shape.sizes, depth, rank(a.shape))
        subs == IF forward THEN Product(Take(tail, count))
                ELSE Product(Skip(Rev(tail), count))
    IN  [depth |-> depth, count |-> count, forward |-> forward, tail |-> tail,
         returns |-> rank(a.shape) - depth < 2 \/ depth + count = rank(a.shape)
                        \/ count = 0,
         empty |-> \E k \in 1..Len(tail) : tail[k] = 0,
         product |-> Product(tail),
         subs |-> subs]

\* A gather that reads what the other workers have written rather than the
\* input
GatherChunkInPlace(temp, data, temp_chunk_i, subs) ==
    LET stride == Len(data) \div subs
    IN  <<>> \o [k \in 1..Len(temp) |->
                    IF (k - 1) \div subs = temp_chunk_i
                    THEN temp[((k - 1) % subs) * stride + temp_chunk_i + 1]
                    ELSE temp[k]]

\* for_each(op) on one chunk of temp: temp[temp_chunk_i * subs + chunk_i] =
\* data[chunk_i * stride + temp_chunk_i]
GatherChunk(temp, data, temp_chunk_i, subs) ==
    LET stride == Len(data) \div subs
    IN  <<>> \o [k \in 1..Len(temp) |->
                    IF (k - 1) \div subs = temp_chunk_i
                    THEN data[((k - 1) % subs) * stride + temp_chunk_i + 1]
                    ELSE temp[k]]

\* The chunk of data_slice.chunks_exact_mut(product) at index chunk
DataChunk(data, chunk, product) == SubSeq(data, chunk * product + 1, (chunk + 1) * product)

\* data.clone_from_slice(&temp) on the chunk at index chunk
clone_from_slice(data, chunk, temp) ==
    SubSeq(data, 1, chunk * Len(temp)) \o temp
        \o SubSeq(data, (chunk + 1) * Len(temp) + 1, Len(data))

GCall(depth, amnt, status, before, chunk, temp, done) ==
    [op |-> "transpose_depth", depth |-> depth, amnt |-> amnt, status |-> status,
     before |-> before, chunk |-> chunk, temp |-> temp, done |-> done]

\* The last lines of transpose_depth: the rotation of the shape, which panics
\* when count is above the number of dimensions rotated
RotateShape(a, plan) ==
    IF plan.count > Len(plan.tail)
    THEN [status |-> "panic", arr |-> a]
    ELSE [status |-> "ok",
          arr |-> Array(RotateSizes(a.shape, plan.depth, plan.count, plan.forward),
                        a.data)]

Gathering == call.status = "gathering"

\* Whether the call reaches the gather and runs it in parallel
Parallel(a, plan) ==
    /\ ~plan.returns
    /\ ~plan.empty
    /\ a.data # <<>>
    /\ plan.subs > PAR_THRESHOLD

\* transpose_depth when no gather runs or temp.chunks_mut(subs) is walked in
\* order: the whole call
TransposeSequential(depth, amnt) ==
    /\ Running
    /\ ~Gathering
    /\ ~Parallel(arr, TransposePlan(arr, depth, amnt))
    /\ LET r == transpose_depth(arr, depth, amnt)
       IN  /\ arr' = r.arr
           /\ call' = GCall(depth, amnt, r.status, arr, 0, <<>>, {})
    /\ UNCHANGED <<prior, shapeVars>>

\* transpose_depth up to the parallel gather of the first chunk: let mut temp
\* = data.to_vec()
TransposeBegin(depth, amnt) ==
    /\ Running
    /\ ~Gathering
    /\ LET plan == TransposePlan(arr, depth, amnt)
       IN  /\ Parallel(arr, plan)
           /\ call' = GCall(depth, amnt, "gathering", arr, 0,
                            DataChunk(arr.data, 0, plan.product), {})
    /\ UNCHANGED <<arr, prior, shapeVars>>

\* temp.par_chunks_mut(subs).enumerate().for_each(op): a worker takes any
\* chunk of temp not yet written
GatherParallel(temp_chunk_i) ==
    /\ Gathering
    /\ temp_chunk_i \notin call.done
    /\ LET plan == TransposePlan(arr, call.depth, call.amnt)
           data == DataChunk(arr.data, call.chunk, plan.product)
       IN  /\ temp_chunk_i < plan.product \div plan.subs
           /\ call' = [call EXCEPT !.temp = GatherChunk(call.temp, data, temp_chunk_i, plan.subs),
                                    !.done = call.done \cup {temp_chunk_i}]
    /\ UNCHANGED <<arr, prior, shapeVars>>

\* data.clone_from_slice(&temp), then the next chunk or the rotation of the
\* shape
TransposeEndChunk ==
    /\ Gathering
    /\ LET plan == TransposePlan(arr, call.depth, call.amnt)
           copied == Array(arr.shape, clone_from_slice(arr.data, call.chunk, call.temp))
       IN  /\ call.done = 0..((plan.product \div plan.subs) - 1)
           /\ IF (call.chunk + 1) * plan.product < Len(arr.data)
              THEN /\ arr' = copied
                   /\ call' = [call EXCEPT !.chunk = call.chunk + 1,
                                            !.temp = DataChunk(arr.data, call.chunk + 1,
                                                               plan.product),
                                            !.done = {}]
              ELSE LET r == RotateShape(copied, plan)
                   IN  /\ arr' = r.arr
                       /\ call' = [call EXCEPT !.status = r.status, !.temp = <<>>,
                                                !.done = {}]
    /\ UNCHANGED <<prior, shapeVars>>

\* Small non-zero dimensions, and one just above the threshold of the
\* parallel gather
GatherDims == (1..MaxGatherDim) \cup {PAR_THRESHOLD + 1}

\* The product of the dimensions that are not above the threshold
RECURSIVE SmallProduct(_)
SmallProduct(sizes) ==
    IF sizes = <<>> THEN 1
    ELSE (IF Head(sizes) > PAR_THRESHOLD THEN 1 ELSE Head(sizes)) * SmallProduct(Tail(sizes))

GatherSizes ==
    {sizes \in SeqsUpTo(GatherDims, MaxGatherRank) :
        /\ SmallProduct(sizes) <= MaxGatherElems
        /\ Cardinality({k \in 1..Len(sizes) : sizes[k] > PAR_THRESHOLD}) <= 1}

GatherInit ==
    /\ \E sizes \in GatherSizes :
           arr = Array(ShapeFromSizes(sizes), <<>> \o [k \in 1..Product(sizes) |-> k - 1])
    /\ call = NoCall
    /\ prior = NoCall
    /\ shp = scalar
    /\ split = scalar
    /\ scall = SCall("from_iter", "ok")

\* The top level and the level below it; one and two places, either way
GatherDepths == {0, 1}
GatherAmnts == {-2, -1, 1, 2}

GatherNext ==
    \/ \E depth \in GatherDepths, amnt \in GatherAmnts :
           TransposeSequential(depth, amnt)
    \/ \E depth \in GatherDepths, amnt \in GatherAmnts : TransposeBegin(depth, amnt)
    \/ \E temp_chunk_i \in 0..(MaxGatherElems - 1) : GatherParallel(temp_chunk_i)
    \/ TransposeEndChunk

SpecGather == GatherInit /\ [][GatherNext]_vars

---------------------------------------------------------------------------
(* The reversal state machine: reverse_depth on one array *)

RevSizes ==
    {sizes \in SeqsUpTo(0..MaxRevDim, MaxRevRank) : Product(sizes) <= MaxRevElems}

RevArrays ==
    UNION {{Array(ShapeFromSizes(sizes), data) :
               data \in [1..Product(sizes) -> 0..MaxRevVal]} : sizes \in RevSizes}

RevInit ==
    /\ arr \in RevArrays
    /\ call = NoCall
    /\ prior = NoCall
    /\ shp = scalar
    /\ split = scalar
    /\ scall = SCall("from_iter", "ok")

RevNext == \E depth \in 0..MaxRevDepth : ReverseDepth(depth)

SpecRev == RevInit /\ [][RevNext]_vars

---------------------------------------------------------------------------
(* first_where and the indices of the extremal rows *)

\* first_where that reports the position of the last nonzero element
RECURSIVE FirstWhereLoopLast(_, _)
FirstWhereLoopLast(data, i) ==
    IF i >= Len(data) THEN [status |-> "none", index |-> 0]
    ELSE IF data[i + 1] < 0 THEN [status |-> "err", index |-> i]
    ELSE LET later == FirstWhereLoopLast(data, i + 1)
         IN  IF later.status = "ok" \/ data[i + 1] = 0 THEN later
             ELSE [status |-> "ok", index |-> i]

\* Value::first_where: the loop over nums.data.iter().enumerate(), which stops
\* at the first negative element or at the first nonzero one
RECURSIVE FirstWhereLoop(_, _)
FirstWhereLoop(data, i) ==
    IF i >= Len(data) THEN [status |-> "none", index |-> 0]
    ELSE IF data[i + 1] < 0 THEN [status |-> "err", index |-> i]
    ELSE IF data[i + 1] # 0 THEN [status |-> "ok", index |-> i]
    ELSE FirstWhereLoop(data, i + 1)

\* Value::first_where on a numeric array; the error for a missing fill value
\* is built by env.error alone
first_where(a, fill) ==
    LET found == FirstWhereLoop(a.data, 0)
    IN  IF found.status = "err" THEN [status |-> "err", out |-> a]
        ELSE IF found.status = "ok"
        THEN IF rank(a.shape) <= 1
             THEN [status |-> "ok", out |-> Array(scalar, <<found.index>>)]
             ELSE [status |-> "ok",
                   out |-> Array(ShapeFromSizes(<<rank(a.shape)>>),
                                 Coordinates(a.shape.sizes, found.index))]
        ELSE IF fill # <<>>
        THEN [status |-> "ok", out |-> Array(scalar, <<fill[1]>>)]
        ELSE [status |-> "err", out |-> a]

\* Ord for ArrayCmpSlice on rows of one array
ArrayCmpSliceCmp(ra, rb) == SliceCmp(ra, rb)

Reverse(ordering) ==
    IF ordering = "Less" THEN "Greater"
    ELSE IF ordering = "Greater" THEN "Less"
    ELSE "Equal"

\* Iterator::min_by over the enumerated rows: the later row replaces the best
\* one only when the best one compares Greater
RECURSIVE MinBy(_, _, _, _)
MinBy(a, best, i, reversed) ==
    IF i >= row_count(a) THEN best
    ELSE LET c == ArrayCmpSliceCmp(row_slice(a, best), row_slice(a, i))
             ordering == IF reversed THEN Reverse(c) ELSE c
         IN  MinBy(a, IF ordering = "Greater" THEN i ELSE best, i + 1, reversed)

\* max_by that keeps the earlier of two equal rows
RECURSIVE MaxByKeepsFirst(_, _, _, _)
MaxByKeepsFirst(a, best, i, reversed) ==
    IF i >= row_count(a) THEN best
    ELSE LET c == ArrayCmpSliceCmp(row_slice(a, best), row_slice(a, i))
             ordering == IF reversed THEN Reverse(c) ELSE c
         IN  MaxByKeepsFirst(a, IF ordering = "Less" THEN i ELSE best, i + 1, reversed)

\* Iterator::max_by over the enumerated rows: the best row is kept only when
\* it compares Greater
RECURSIVE MaxBy(_, _, _, _)
MaxBy(a, best, i, reversed) ==
    IF i >= row_count(a) THEN best
    ELSE LET c == ArrayCmpSliceCmp(row_slice(a, best), row_slice(a, i))
             ordering == IF reversed THEN Reverse(c) ELSE c
         IN  MaxBy(a, IF ordering = "Greater" THEN best ELSE i, i + 1, reversed)

\* The shared frame of the four index searches; the error for a missing fill
\* value is built by env.error alone
ExtremumIndex(a, fill, index) ==
    IF rank(a.shape) = 0 THEN [status |-> "err", out |-> 0]
    ELSE IF row_count(a) = 0
    THEN IF fill # <<>> THEN [status |-> "ok", out |-> fill[1]]
         ELSE [status |-> "err", out |-> 0]
    ELSE [status |-> "ok", out |-> index]

\* Array::first_min_index
first_min_index(a, fill) == ExtremumIndex(a, fill, MinBy(a, 0, 1, FALSE))

\* Array::first_max_index
first_max_index(a, fill) == ExtremumIndex(a, fill, MinBy(a, 0, 1, TRUE))

\* Array::last_min_index
last_min_index(a, fill) == ExtremumIndex(a, fill, MaxBy(a, 0, 1, TRUE))

\* Array::last_max_index
last_max_index(a, fill) == ExtremumIndex(a, fill, MaxBy(a, 0, 1, FALSE))

---------------------------------------------------------------------------
(* The index state machine: first, last, first_where and the four index    *)
(* searches on one numeric array, with or without a fill value             *)

IdxVals == (-1)..MaxIdxVal

IdxSizes ==
    {sizes \in SeqsUpTo(0..MaxIdxDim, MaxIdxRank) : Product(sizes) <= MaxIdxElems}

IdxArrays ==
    UNION {{Array(ShapeFromSizes(sizes), data) :
               data \in [1..Product(sizes) -> IdxVals]} : sizes \in IdxSizes}

IdxFills == {<<>>} \cup {<<v>> : v \in 0..MaxIdxVal}

IdxInit ==
    /\ arr \in IdxArrays
    /\ call = NoCall
    /\ prior = NoCall
    /\ shp = scalar
    /\ split = scalar
    /\ scall = SCall("from_iter", "ok")

FirstWhere(fill) ==
    /\ LET r == first_where(arr, fill)
       IN  call' = Call("first_where", 0, 0, fill, r.status, r.out)
    /\ UNCHANGED <<arr, prior, shapeVars>>

FirstMinIndex(fill) ==
    /\ LET r == first_min_index(arr, fill)
       IN  call' = Call("first_min_index", 0, 0, fill, r.status, r.out)
    /\ UNCHANGED <<arr, prior, shapeVars>>

FirstMaxIndex(fill) ==
    /\ LET r == first_max_index(arr, fill)
       IN  call' = Call("first_max_index", 0, 0, fill, r.status, r.out)
    /\ UNCHANGED <<arr, prior, shapeVars>>

LastMinIndex(fill) ==
    /\ LET r == last_min_index(arr, fill)
       IN  call' = Call("last_min_index", 0, 0, fill, r.status, r.out)
    /\ UNCHANGED <<arr, prior, shapeVars>>

LastMaxIndex(fill) ==
    /\ LET r == last_max_index(arr, fill)
       IN  call' = Call("last_max_index", 0, 0, fill, r.status, r.out)
    /\ UNCHANGED <<arr, prior, shapeVars>>

IdxNext ==
    \E fill \in IdxFills :
        \/ First(fill)
        \/ Last(fill)
        \/ FirstWhere(fill)
        \/ FirstMinIndex(fill)
        \/ FirstMaxIndex(fill)
        \/ LastMinIndex(fill)
        \/ LastMaxIndex(fill)

SpecIdx == IdxInit /\ [][IdxNext]_vars

---------------------------------------------------------------------------
(* Value::inv_bits and its state machine *)

U8_BITS == 8

\* Value::Byte(array)
Byte(a) == [kind |-> "byte", arr |-> a]

\* n as u8 on an f64: the fraction is dropped, negative saturates to 0, above
\* u8::MAX saturates to u8::MAX
RECURSIVE BitsValue(_)
BitsValue(mag) ==
    IF mag = {} THEN 0
    ELSE LET p == CHOOSE q \in mag : TRUE IN 2 ^ p + BitsValue(mag \ {p})

F64ToU8(x) ==
    IF x.neg THEN 0
    ELSE IF \E p \in x.mag : p >= U8_BITS THEN 2 ^ U8_BITS - 1
    ELSE BitsValue(x.mag)

\* Value::inv_bits
inv_bits(v) ==
    IF v.kind = "byte" THEN inverse_bits(v.arr)
    ELSE inverse_bits(Array(v.arr.shape,
                            <<>> \o [k \in 1..Len(v.arr.data) |-> F64ToU8(v.arr.data[k])]))

ByteArrays ==
    UNION {{Array(ShapeFromSizes(sizes), data) :
               data \in [1..Product(sizes) -> 0..MaxByte]} : sizes \in BitsSizes}

InvBitsInit ==
    /\ \/ \E x \in BitsArrays : arr = Num(x)
       \/ \E y \in ByteArrays : arr = Byte(y)
    /\ call = NoCall
    /\ prior = NoCall
    /\ shp = scalar
    /\ split = scalar
    /\ scall = SCall("from_iter", "ok")

\* The decoded array is numeric
InvBits ==
    /\ LET r == inv_bits(arr)
       IN  /\ arr' = IF r.status = "ok" THEN Num(r.arr) ELSE arr
           /\ call' = Call("inv_bits", 0, 0, <<>>, r.status, <<>>)
    /\ UNCHANGED <<prior, shapeVars>>

InvBitsNext == InvBits

SpecInvBits == InvBitsInit /\ [][InvBitsNext]_vars

---------------------------------------------------------------------------
(* The boxed-value state machine *)

BoxSizes ==
    {sizes \in SeqsUpTo(1..MaxBoxDim, MaxBoxRank) : Product(sizes) <= MaxBoxElems}

\* An array of the given sizes holding offset, offset + 1, ...
Iota(sizes, offset) ==
    Array(ShapeFromSizes(sizes), <<>> \o [k \in 1..Product(sizes) |-> offset + k - 1])

\* The i-th contained value of a boxed array: a numeric array of the inner
\* sizes with its own elements, wrapped in a rank-0 box when asked
Contained(inner, i, wrapped) ==
    LET leaf == Num(Iota(inner, (i - 1) * Product(inner)))
    IN  IF wrapped THEN Box(Array(scalar, <<leaf>>)) ELSE leaf

BoxedArray(outer, inner, wrapped) ==
    Box(Array(ShapeFromSizes(outer),
              <<>> \o [i \in 1..Product(outer) |-> Contained(inner, i, wrapped)]))

\* A numeric array, a boxed array, or a rank-0 box holding a boxed array
BoxForms == {"num", "box", "nested"}

BoxValue(form, outer, inner, wrapped) ==
    IF form = "num" THEN Num(Iota(inner, 0))
    ELSE IF form = "box" THEN BoxedArray(outer, inner, wrapped)
    ELSE Box(Array(scalar, <<BoxedArray(outer, inner, wrapped)>>))

BoxInit ==
    /\ \E form \in BoxForms, outer \in BoxSizes, inner \in BoxSizes, wrapped \in BOOLEAN :
           arr = BoxValue(form, outer, inner, wrapped)
    /\ call = NoCall
    /\ prior = NoCall
    /\ shp = scalar
    /\ split = scalar
    /\ scall = SCall("from_iter", "ok")

\* One axis forwards and one axis backwards
BoxAmnts == {-1, 1}

ValueReverseDepth(depth) ==
    /\ Running
    /\ arr' = value_reverse_depth(arr, depth)
    /\ call' = Call("reverse_depth", depth, 0, <<>>, "ok", <<>>)
    /\ UNCHANGED <<prior, shapeVars>>

ValueDeshapeDepth(depth) ==
    /\ Running
    /\ arr' = value_deshape_depth(arr, depth)
    /\ call' = Call("deshape_depth", depth, 0, <<>>, "ok", <<>>)
    /\ UNCHANGED <<prior, shapeVars>>

ValueTransposeDepth(depth, amnt) ==
    /\ Running
    /\ LET r == value_transpose_depth(arr, depth, amnt)
       IN  /\ arr' = r.val
           /\ call' = Call("transpose_depth", depth, amnt, <<>>, r.status, <<>>)
    /\ UNCHANGED <<prior, shapeVars>>

BoxNext ==
    \/ \E depth \in 0..MaxBoxDepth : ValueReverseDepth(depth)
    \/ \E depth \in 0..MaxBoxDepth : ValueDeshapeDepth(depth)
    \/ \E depth \in 0..MaxBoxDepth, amnt \in BoxAmnts : ValueTransposeDepth(depth, amnt)

SpecBox == BoxInit /\ [][BoxNext]_vars

---------------------------------------------------------------------------
(* Two arrays over copy-on-write buffers *)

\* The heap: two buffers, and two arrays a and b, each a shape and the
\* buffer its data field refers to
Heap(a, b, bufs) == [a |-> a, b |-> b, bufs |-> bufs]
Handle(shape, buf) == [shape |-> shape, buf |-> buf]

Names == {"a", "b"}
Other(who) == IF who = "a" THEN "b" ELSE "a"
Arr(h, who) == IF who = "a" THEN h.a ELSE h.b
SetArr(h, who, x) == IF who = "a" THEN Heap(x, h.b, h.bufs) ELSE Heap(h.a, x, h.bufs)

\* The reference count of the buffer is two
Shared(h) == h.a.buf = h.b.buf

\* The array as its owner sees it
View(h, who) == Array(Arr(h, who).shape, h.bufs[Arr(h, who).buf])

SetBuf(bufs, id, data) == IF id = 1 THEN <<data, bufs[2]>> ELSE <<bufs[1], data>>

\* A direct memory write through the slice the array holds
Write(h, who, data) == Heap(h.a, h.b, SetBuf(h.bufs, Arr(h, who).buf, data))

\* CowSlice::as_mut_slice: a buffer that is shared is cloned first, and the
\* array refers to its private clone from then on
as_mut_slice(h, who) ==
    IF Shared(h)
    THEN LET clone == 3 - Arr(h, who).buf
         IN  SetArr(Heap(h.a, h.b, SetBuf(h.bufs, clone, h.bufs[Arr(h, who).buf])),
                    who, Handle(Arr(h, who).shape, clone))
    ELSE h

\* self.data = new_data: the array lets go of its buffer and refers to the
\* new one
Assign(h, who, data) ==
    IF Shared(h)
    THEN LET fresh == 3 - Arr(h, who).buf
         IN  SetArr(Heap(h.a, h.b, SetBuf(h.bufs, fresh, data)),
                    who, Handle(Arr(h, who).shape, fresh))
    ELSE Write(h, who, data)

SetShape(h, who, shape) == SetArr(h, who, Handle(shape, Arr(h, who).buf))

\* Array::clone into the other array: the shape is copied and the buffer is
\* shared; the buffer the other array let go of is freed
clone(h, who) ==
    LET src == Arr(h, who)
        kept == SetBuf(h.bufs, 3 - src.buf, <<>>)
    IN  Heap(src, src, kept)

\* reverse_depth that swaps through the buffer without taking it exclusively
reverse_depth_shared_write(h, who, depth0) ==
    Write(h, who, reverse_depth(View(h, who), depth0).data)

\* Array::reverse_depth on the heap
reverse_depth_in_place(h, who, depth0) ==
    LET a == View(h, who)
        depth == Min(depth0, rank(a.shape))
        row_shape == Slice(a.shape.sizes, depth, rank(a.shape))
    IN  IF row_shape = <<>> THEN h
        ELSE IF Product(row_shape) = 0 THEN h
        ELSE Write(as_mut_slice(h, who), who, reverse_depth(a, depth0).data)

\* Array::transpose_depth on the heap
transpose_depth_in_place(h, who, depth0, amnt) ==
    LET a == View(h, who)
        depth == Min(depth0, rank(a.shape))
        count == Abs(amnt)
        tail == Slice(a.shape.sizes, depth, rank(a.shape))
        r == transpose_depth(a, depth0, amnt)
    IN  IF rank(a.shape) - depth < 2 \/ depth + count = rank(a.shape) \/ count = 0
        THEN [status |-> "ok", heap |-> h]
        ELSE IF \E k \in 1..Len(tail) : tail[k] = 0
        THEN [status |-> r.status, heap |-> SetShape(h, who, r.arr.shape)]
        ELSE [status |-> r.status,
              heap |-> SetShape(Write(as_mut_slice(h, who), who, r.arr.data),
                                who, r.arr.shape)]

\* Array::sort_up on the heap
sort_up_in_place(h, who) ==
    LET a == View(h, who)
        r == sort_up(a)
    IN  IF rank(a.shape) = 0 THEN [status |-> "err", heap |-> h]
        ELSE IF element_count(a) = 0 THEN [status |-> "ok", heap |-> h]
        ELSE IF rank(a.shape) = 1
        THEN [status |-> "ok", heap |-> Write(as_mut_slice(h, who), who, r.arr.data)]
        ELSE [status |-> "ok", heap |-> Assign(h, who, r.arr.data)]

\* Array::sort_down on the heap
sort_down_in_place(h, who) ==
    LET a == View(h, who)
        r == sort_down(a)
    IN  IF rank(a.shape) = 0 THEN [status |-> "err", heap |-> h]
        ELSE IF element_count(a) = 0 THEN [status |-> "ok", heap |-> h]
        ELSE IF rank(a.shape) = 1
        THEN [status |-> "ok", heap |-> Write(as_mut_slice(h, who), who, r.arr.data)]
        ELSE [status |-> "ok", heap |-> Assign(h, who, r.arr.data)]

\* Array::deduplicate on the heap
deduplicate_in_place(h, who) ==
    LET a == View(h, who)
        r == deduplicate(a)
    IN  IF rank(a.shape) = 0 THEN h
        ELSE SetShape(Assign(h, who, r.data), who, r.shape)

\* Array::deshape_depth on the heap: the shape alone
deshape_depth_in_place(h, who, depth0) ==
    SetShape(h, who, deshape_depth(View(h, who), depth0).shape)

---------------------------------------------------------------------------
(* The shared-buffer state machine *)

CowSizes ==
    {sizes \in SeqsUpTo(0..MaxCowDim, MaxCowRank) : Product(sizes) <= MaxCowElems}

CowArrays ==
    UNION {{Array(ShapeFromSizes(sizes), data) :
               data \in [1..Product(sizes) -> 0..MaxCowVal]} : sizes \in CowSizes}

\* One axis forwards and one axis backwards
CowAmnts == {-1, 1}

\* The arrays as they were when they last came to share a buffer, and the
\* arrays operated on since
Sharing(view, touched) == [view |-> view, touched |-> touched]
Touch(who) == Sharing(prior.view, prior.touched \cup {who})

\* b = a.clone()
CowInit ==
    /\ \E x \in CowArrays :
           /\ arr = Heap(Handle(x.shape, 1), Handle(x.shape, 1), <<<<>> \o x.data, <<>>>>)
           /\ prior = Sharing(Array(x.shape, <<>> \o x.data), {})
    /\ call = NoCall
    /\ shp = scalar
    /\ split = scalar
    /\ scall = SCall("from_iter", "ok")

CowClone(who) ==
    /\ arr' = clone(arr, who)
    /\ prior' = Sharing(View(arr, who), {})
    /\ UNCHANGED <<call, shapeVars>>

CowReverseDepth(who, depth) ==
    /\ arr' = reverse_depth_in_place(arr, who, depth)
    /\ prior' = Touch(who)
    /\ UNCHANGED <<call, shapeVars>>

CowTransposeDepth(who, depth, amnt) ==
    /\ arr' = transpose_depth_in_place(arr, who, depth, amnt).heap
    /\ prior' = Touch(who)
    /\ UNCHANGED <<call, shapeVars>>

CowSortUp(who) ==
    /\ arr' = sort_up_in_place(arr, who).heap
    /\ prior' = Touch(who)
    /\ UNCHANGED <<call, shapeVars>>

CowSortDown(who) ==
    /\ arr' = sort_down_in_place(arr, who).heap
    /\ prior' = Touch(who)
    /\ UNCHANGED <<call, shapeVars>>

CowDeduplicate(who) ==
    /\ arr' = deduplicate_in_place(arr, who)
    /\ prior' = Touch(who)
    /\ UNCHANGED <<call, shapeVars>>

CowDeshapeDepth(who, depth) ==
    /\ arr' = deshape_depth_in_place(arr, who, depth)
    /\ prior' = Touch(who)
    /\ UNCHANGED <<call, shapeVars>>

\* The operations are applied to a; b holds the other reference
CowNext ==
    \/ \E who \in Names : CowClone(who)
    \/ \E depth \in 0..MaxCowDepth : CowReverseDepth("a", depth)
    \/ \E depth \in 0..MaxCowDepth, amnt \in CowAmnts : CowTransposeDepth("a", depth, amnt)
    \/ CowSortUp("a")
    \/ CowSortDown("a")
    \/ CowDeduplicate("a")
    \/ \E depth \in 0..MaxCowDepth : CowDeshapeDepth("a", depth)

SpecCow == CowInit /\ [][CowNext]_vars

---------------------------------------------------------------------------
(* C2: after any sequence of Shape mutations with in-range indices the     *)
(* marker sequence is empty or has exactly one entry per dimension, for    *)
(* the shape itself and for the shape split_off returned.                  *)

InLockstep(s) == s.markers = <<>> \/ Len(s.markers) = Len(s.sizes)

C2_MarkersInLockstep == InLockstep(shp) /\ InLockstep(split)

(* C3: equality and ordering of shapes depend only on the sizes: equal     *)
(* size sequences compare == and Ordering::Equal whatever the markers,     *)
(* different size sequences are ordered by the sizes alone.                *)

C3_CompareBySizesOnly ==
    scall.op = "cmp" =>
        /\ scall.eq = (shp.sizes = scall.other.sizes)
        /\ scall.ord = SliceCmp(shp.sizes, scall.other.sizes)

---------------------------------------------------------------------------
(* C1: from an array whose buffer length equals the product of its shape's *)
(* sizes, after every step of any sequence of fix, inv_fix, deshape_depth, *)
(* reverse_depth, transpose_depth, first, last, sort_up, sort_down and     *)
(* deduplicate calls the buffer length still equals that product.          *)

C1_BufferMatchesShape == Len(arr.data) = Product(arr.shape.sizes)

\* deduplicate dropped rows of a non-empty array
C1_Witness ==
    /\ call.op = "deduplicate"
    /\ Len(arr.data) > 0
    /\ Len(arr.data) < Len(call.before.data)

(* C4: deshape_depth(d) keeps the first min(d, rank) sizes, replaces the   *)
(* rest by one trailing dimension holding their product (1 when none       *)
(* remain), preserves the product of all sizes and leaves the data alone.  *)

C4_DeshapeDepth ==
    call.op = "deshape_depth" =>
        LET before == call.before.shape.sizes
            d == Min(call.depth, Len(before))
        IN  /\ arr.shape.sizes =
                   SubSeq(before, 1, d) \o <<Product(SubSeq(before, d + 1, Len(before)))>>
            /\ Product(arr.shape.sizes) = Product(before)
            /\ arr.data = call.before.data

\* a deshape below the top level that merged two dimensions larger than 1
C4_Witness ==
    /\ call.op = "deshape_depth"
    /\ call.depth = 1
    /\ Len(call.before.shape.sizes) = 3
    /\ call.before.shape.sizes[2] > 1
    /\ call.before.shape.sizes[3] > 1
    /\ Len(arr.shape.sizes) = 2
    /\ Len(arr.data) > 1

(* C5: reverse_depth(depth) applied twice restores the original shape and  *)
(* the original buffer, element for element.                               *)

C5_ReverseTwiceRestores ==
    (call.op = "reverse_depth" /\ prior.op = "reverse_depth") => arr = prior.before

\* two reversals below the top level, each of which moved data
C5_Witness ==
    /\ call.op = "reverse_depth"
    /\ prior.op = "reverse_depth"
    /\ call.depth >= 1
    /\ call.before # prior.before
    /\ arr = prior.before

(* C6: for every array with rank >= depth+2 and every signed amount k,     *)
(* transpose_depth(depth, k) followed by transpose_depth(depth, -k)        *)
(* completes and restores the original shape and data.                     *)

C6_TransposeRoundTrip ==
    /\ (call.op = "transpose_depth" /\ rank(call.before.shape) >= call.depth + 2)
           => call.status = "ok"
    /\ (call.op = "transpose_depth" /\ prior.op = "transpose_depth"
            /\ rank(prior.before.shape) >= call.depth + 2)
           => arr = prior.before

(* C7: transpose_depth(depth, amount) leaves shape and data unchanged when *)
(* rank < depth+2, when amount = 0, and when amount is congruent to 0      *)
(* modulo the remaining rank (rank - depth), larger multiples included.    *)

TransposeDegenerate(a, depth, amnt) ==
    \/ rank(a.shape) < depth + 2
    \/ amnt = 0
    \/ Abs(amnt) % (rank(a.shape) - depth) = 0

C7_TransposeDegenerateNoOp ==
    (call.op = "transpose_depth" /\ TransposeDegenerate(call.before, call.depth, call.amnt))
        => (call.status = "ok" /\ arr = call.before)

(* C8: for an array of rank >= 1 with at least one element, rise returns a *)
(* permutation of the row indices such that the rows in that order are     *)
(* non-decreasing lexicographically and equal rows keep their original     *)
(* index order.                                                            *)

C8_RiseSortsStably ==
    (call.op = "rise" /\ rank(call.before.shape) >= 1 /\ element_count(call.before) >= 1) =>
        LET a == call.before
            out == call.out
        IN  /\ call.status = "ok"
            /\ Len(out) = row_count(a)
            /\ Range(out) = 0..(row_count(a) - 1)
            /\ \A i, j \in 1..Len(out) :
                   i < j =>
                       LET c == SliceCmp(row_slice(a, out[i]), row_slice(a, out[j]))
                       IN  /\ c # "Greater"
                           /\ c = "Equal" => out[i] < out[j]

\* rise reordered rows that are decided by their second element, with a tie
C8_Witness ==
    /\ call.op = "rise"
    /\ row_len(call.before) >= 2
    /\ call.out # RowIndices(call.before)
    /\ \E i, j \in 0..(row_count(call.before) - 1) :
           i # j /\ row_slice(call.before, i)[1] = row_slice(call.before, j)[1]

(* C9: for an array of rank >= 1, sort_up leaves the shape unchanged and   *)
(* makes the rows the original rows in the order rise returns, on the      *)
(* rank-1 path and on the higher-rank path; sort_down likewise with fall.  *)

C9_SortMatchesRise ==
    /\ (call.op = "sort_up" /\ rank(call.before.shape) >= 1) =>
           /\ call.status = "ok"
           /\ arr.shape = call.before.shape
           /\ arr.data = CollectRows(call.before, rise(call.before).out)
    /\ (call.op = "sort_down" /\ rank(call.before.shape) >= 1) =>
           /\ call.status = "ok"
           /\ arr.shape = call.before.shape
           /\ arr.data = CollectRows(call.before, fall(call.before).out)

\* a rank-1 sort that moved elements
C9_Witness ==
    /\ call.op = "sort_up"
    /\ rank(call.before.shape) = 1
    /\ arr.data # call.before.data

(* C10: for an array of rank >= 1 whose rows are pairwise distinct under   *)
(* the row comparison, the index list fall returns is exactly the reverse  *)
(* of the index list rise returns.                                         *)

RowsPairwiseDistinct(a) ==
    \A i, j \in 0..(row_count(a) - 1) :
        i # j => SliceCmp(row_slice(a, i), row_slice(a, j)) # "Equal"

C10_FallReversesRise ==
    (call.op = "fall" /\ rank(call.before.shape) >= 1 /\ RowsPairwiseDistinct(call.before)) =>
        /\ call.status = "ok"
        /\ call.out = Rev(rise(call.before).out)

\* fall on at least two distinct rows of two or more elements
C10_Witness ==
    /\ call.op = "fall"
    /\ row_count(call.before) >= 2
    /\ row_len(call.before) >= 2
    /\ RowsPairwiseDistinct(call.before)

---------------------------------------------------------------------------
(* C11: deduplicate keeps exactly the first occurrence of each distinct    *)
(* row in original order: the output rows are pairwise distinct, every     *)
(* input row equals some output row, the output has no more rows than the  *)
(* input, a second deduplicate changes nothing, and a rank-0 array is left *)
(* as it is.                                                               *)

\* The indices of the rows that no earlier row equals, in increasing order
FirstOccurrences(a) ==
    SelectSeq(RowIndices(a),
              LAMBDA i : \A j \in 0..(i - 1) : row_slice(a, j) # row_slice(a, i))

C11_DeduplicateFirstOccurrences ==
    call.op = "deduplicate" =>
        LET before == call.before
        IN  /\ rank(before.shape) = 0 => arr = before
            /\ rank(before.shape) >= 1 =>
                  /\ arr.data = CollectRows(before, FirstOccurrences(before))
                  /\ row_count(arr) = Len(FirstOccurrences(before))
                  /\ Tail(arr.shape.sizes) = Tail(before.shape.sizes)
                  /\ RowsPairwiseDistinct(arr)
                  /\ \A i \in 0..(row_count(before) - 1) :
                        \E j \in 0..(row_count(arr) - 1) :
                            row_slice(arr, j) = row_slice(before, i)
                  /\ row_count(arr) <= row_count(before)
            /\ prior.op = "deduplicate" => arr = call.before

\* a second deduplicate, after the first one dropped a row that repeated an
\* earlier, non-adjacent row
C11_Witness ==
    /\ call.op = "deduplicate"
    /\ prior.op = "deduplicate"
    /\ row_count(arr) >= 2
    /\ row_count(prior.before) > row_count(arr)
    /\ \E i \in 2..(row_count(prior.before) - 1) :
          /\ row_slice(prior.before, i) = row_slice(prior.before, i - 2)
          /\ row_slice(prior.before, i) # row_slice(prior.before, i - 1)

---------------------------------------------------------------------------
(* C12: for an array of rank >= 1 classify returns one class id per row;   *)
(* two rows get the same id exactly when they are equal, first occurrences *)
(* get 0, 1, 2, ... in order of appearance, and for a non-empty array the  *)
(* largest id + 1 is the row count of deduplicate; on rank 0 it fails.     *)

C12_ClassifyByFirstOccurrence ==
    call.op = "classify" =>
        LET rows == 0..(row_count(arr) - 1)
            firsts == FirstOccurrences(arr)
        IN  /\ rank(arr.shape) = 0 => call.status = "err"
            /\ rank(arr.shape) >= 1 =>
                  /\ call.status = "ok"
                  /\ Len(call.out) = row_count(arr)
                  /\ \A i, j \in rows :
                        (call.out[i + 1] = call.out[j + 1])
                            <=> (row_slice(arr, i) = row_slice(arr, j))
                  /\ \A k \in 1..Len(firsts) : call.out[firsts[k] + 1] = k - 1
                  /\ row_count(arr) >= 1 =>
                        MaxOf(Range(call.out)) + 1 = row_count(deduplicate(arr))

\* classify met a row equal to an earlier, non-adjacent row
C12_Witness ==
    /\ call.op = "classify"
    /\ call.status = "ok"
    /\ \E i \in 2..(row_count(arr) - 1) :
          /\ call.out[i + 1] = call.out[i - 1]
          /\ call.out[i + 1] # call.out[i]

---------------------------------------------------------------------------
(* C14: for every counts array of naturals of rank <= 1, a scalar, an      *)
(* all-zero list and a list with trailing zeros included, inverse_where    *)
(* applied to the result of where returns the original counts array.       *)

WhereRoundTrip ==
    /\ call.op = "inverse_where"
    /\ prior.op = "where"
    /\ rank(prior.before.shape) <= 1

C14_WhereRoundTrip == WhereRoundTrip => (call.status = "ok" /\ arr = prior.before)

(* C14, as the code has it: the round trip returns the counts as a list    *)
(* without its trailing zeros, so it restores exactly the lists that are   *)
(* empty or end in a nonzero count; a scalar count comes back as a list.   *)

RECURSIVE StripTrailingZeros(_)
StripTrailingZeros(counts) ==
    IF counts # <<>> /\ counts[Len(counts)] = 0
    THEN StripTrailingZeros(SubSeq(counts, 1, Len(counts) - 1))
    ELSE counts

C14_WhereRoundTripStripsZeros ==
    WhereRoundTrip =>
        LET counts == prior.before.data
        IN  /\ call.status = "ok"
            /\ arr.data = StripTrailingZeros(counts)
            /\ arr.shape = ShapeFromSizes(<<Len(arr.data)>>)
            /\ (rank(prior.before.shape) = 1 /\ StripTrailingZeros(counts) = counts)
                  => arr = prior.before

\* the round trip restored a list with a zero inside and a count above 1
C14_Witness ==
    /\ WhereRoundTrip
    /\ arr = prior.before
    /\ Len(arr.data) >= 3
    /\ \E i, j \in 1..Len(arr.data) : arr.data[i] = 0 /\ arr.data[j] >= 2

---------------------------------------------------------------------------
(* C13: for every array of non-negative integers, of any rank, a scalar,   *)
(* an empty array and an all-zero array included, bits stores bit j        *)
(* (0 = least significant) of each element at position j of a new trailing *)
(* axis whose size is the bit length of the maximum element, and           *)
(* inverse_bits applied to that result returns the original shape and      *)
(* values.                                                                 *)

NonNegativeIntegers(a) ==
    \A k \in 1..Len(a.data) : ~a.data[k].neg /\ ~a.data[k].frac

\* The bit length of the largest element: 0 for no element or all zeros
WidthOf(a) ==
    LET ones == UNION {a.data[k].mag : k \in 1..Len(a.data)}
    IN  IF ones = {} THEN 0 ELSE HighBit(ones) + 1

BitsLayout ==
    LET before == call.before
        width == WidthOf(before)
    IN  /\ call.status = "ok"
        /\ arr.shape.sizes = Append(before.shape.sizes, width)
        /\ Len(arr.data) = Len(before.data) * width
        /\ \A i \in 0..(Len(before.data) - 1), j \in 0..(width - 1) :
              arr.data[i * width + j + 1] = IF j \in before.data[i + 1].mag THEN 1 ELSE 0

BelowU128(a) ==
    \A k \in 1..Len(a.data) : \A p \in a.data[k].mag : p < U128_BITS

---------------------------------------------------------------------------
(* C15: for a request that is a list of n >= 2 naturals within the size    *)
(* limit, range returns an array of shape [s_0, ..., s_{n-1}, n] whose     *)
(* rows of length n are every multi-index of the requested shape exactly   *)
(* once, in lexicographically increasing order, with empty data when a     *)
(* size is zero; for a scalar request m it returns the list 0..m-1.        *)

\* The product of the sizes, or RangeCeiling + 1 once it is above the ceiling
RECURSIVE CappedProduct(_)
CappedProduct(sizes) ==
    IF sizes = <<>> THEN 1
    ELSE LET rest == CappedProduct(Tail(sizes))
         IN  IF Head(sizes) = 0 \/ rest = 0 THEN 0
             ELSE IF Head(sizes) > RangeCeiling \div rest THEN RangeCeiling + 1
             ELSE Head(sizes) * rest

\* The number of elements the result of a request would have, capped likewise
RequestedCount(a) ==
    IF rank(a.shape) = 0 THEN a.data[1]
    ELSE IF a.data = <<>> THEN 0
    ELSE LET rows == CappedProduct(a.data)
         IN  IF rows > RangeCeiling \div Len(a.data) THEN RangeCeiling + 1
             ELSE rows * Len(a.data)

C15_RangeEnumeratesIndices ==
    (call.op = "range" /\ RequestedCount(arr) <= RangeCeiling) =>
        LET out == call.out
            n == Len(arr.data)
            row(r) == SubSeq(out.data, r * n + 1, (r + 1) * n)
        IN  /\ (rank(arr.shape) = 1 /\ n >= 2) =>
                  /\ out.status = "ok"
                  /\ out.shape.sizes = Append(arr.data, n)
                  /\ out.len = RequestedCount(arr)
                  /\ out.built =>
                        /\ Len(out.data) = out.len
                        /\ \A r \in 0..((out.len \div n) - 1) :
                              /\ \A k \in 1..n : row(r)[k] \in 0..(arr.data[k] - 1)
                              /\ r > 0 => SliceCmp(row(r - 1), row(r)) = "Less"
            /\ rank(arr.shape) = 0 =>
                  /\ out.status = "ok"
                  /\ out.shape.sizes = <<arr.data[1]>>
                  /\ out.len = arr.data[1]
                  /\ out.built => out.data = [k \in 1..arr.data[1] |-> k - 1]

\* range built every multi-index of a request of three sizes above 1
C15_Witness ==
    /\ call.op = "range"
    /\ rank(arr.shape) = 1
    /\ Len(arr.data) >= 3
    /\ \A k \in 1..Len(arr.data) : arr.data[k] >= 2
    /\ call.out.built
    /\ Len(call.out.data) = Len(arr.data) * Product(arr.data)

(* C16: range never builds a result above the memory ceiling: every        *)
(* request, scalar or list, whose result would have more than 2^30 / 8     *)
(* elements gets the sizing error and no array, and no request at or below *)
(* the ceiling gets that error.                                            *)

C16_RangeCeiling ==
    call.op = "range" =>
        (call.status = "err" <=> RequestedCount(arr) > RangeCeiling)

---------------------------------------------------------------------------
(* C17: on an array whose leading dimension is 0 and whose remaining shape *)
(* is r, first and last return, given a fill value f, an array of shape r  *)
(* whose product(r) elements all equal f; with no fill value they return   *)
(* an error marked as a fill failure, and no array.                        *)

EmptyLeading(a) == rank(a.shape) >= 1 /\ a.shape.sizes[1] = 0

C17_FirstLastOfEmptyFill ==
    (call.op \in {"first", "last"} /\ EmptyLeading(call.before)) =>
        LET r == Tail(call.before.shape.sizes)
        IN  IF call.fill # <<>>
            THEN /\ call.status = "ok"
                 /\ arr.shape.sizes = r
                 /\ Len(arr.data) = Product(r)
                 /\ \A k \in 1..Len(arr.data) : arr.data[k] = call.fill[1]
            ELSE /\ call.status = "fillerr"
                 /\ arr = call.before

\* first filled a row of two elements with a nonzero fill value
C17_Witness ==
    /\ call.op = "first"
    /\ EmptyLeading(call.before)
    /\ call.fill # <<>>
    /\ call.fill[1] # 0
    /\ Len(arr.data) >= 2

(* C18: on an array of rank >= 1 with a non-zero leading dimension first   *)
(* returns exactly the elements of row 0 and last those of row             *)
(* row_count - 1, each with the input shape minus its leading dimension;   *)
(* on a rank-0 input both fail, with or without a fill value.              *)

C18_FirstLastRow ==
    call.op \in {"first", "last"} =>
        LET before == call.before
        IN  /\ rank(before.shape) = 0 => call.status = "err"
            /\ (rank(before.shape) >= 1 /\ before.shape.sizes[1] # 0) =>
                  /\ call.status = "ok"
                  /\ arr.shape.sizes = Tail(before.shape.sizes)
                  /\ arr.data = row_slice(before, IF call.op = "first" THEN 0
                                                  ELSE row_count(before) - 1)

\* last returned the second row of an array whose two rows differ
C18_Witness ==
    /\ call.op = "last"
    /\ call.status = "ok"
    /\ row_count(call.before) = 2
    /\ row_len(call.before) = 2
    /\ row_slice(call.before, 0) # row_slice(call.before, 1)
    /\ arr.data = row_slice(call.before, 1)

(* C19: Value-level reverse_depth, deshape_depth and transpose_depth on a  *)
(* boxed array follow one rule: a rank-0 box applies the operation to its  *)
(* contained value with the same depth; a boxed array of rank <= 1 with    *)
(* depth > 0 applies it with depth - 1 to every contained value and keeps  *)
(* the outer order and shape; otherwise the operation acts on the boxed    *)
(* array's own rows and leaves every contained value unchanged.  Reverse   *)
(* at depth 1 on a list of boxed lists reverses inside each box, and at    *)
(* depth 0 reverses only the outer order.                                  *)

\* The operation of the last call applied to a value
Applied(v, depth) ==
    IF call.op = "reverse_depth" THEN value_reverse_depth(v, depth)
    ELSE IF call.op = "deshape_depth" THEN value_deshape_depth(v, depth)
    ELSE value_transpose_depth(v, depth, call.amnt).val

\* The operation of the last call applied to the rows of a boxed array
AppliedToRows(a, depth) ==
    IF call.op = "reverse_depth" THEN reverse_depth(a, depth)
    ELSE IF call.op = "deshape_depth" THEN deshape_depth(a, depth)
    ELSE transpose_depth(a, depth, call.amnt).arr

\* The same contained values, each once
SameContained(a, b) ==
    /\ Len(a.data) = Len(b.data)
    /\ \A x \in Range(a.data) :
           Cardinality({i \in 1..Len(a.data) : a.data[i] = x})
               = Cardinality({i \in 1..Len(b.data) : b.data[i] = x})

ListOfBoxedLists(v) ==
    /\ v.kind = "box"
    /\ rank(v.arr.shape) = 1
    /\ \A i \in 1..Len(v.arr.data) :
           v.arr.data[i].kind = "num" /\ rank(v.arr.data[i].arr.shape) = 1

C19_BoxedDepthRecursion ==
    (call.op \in {"reverse_depth", "deshape_depth", "transpose_depth"}
        /\ call.status = "ok" /\ call.before.kind = "box") =>
        LET before == call.before.arr
            depth == call.depth
        IN  /\ arr.kind = "box"
            /\ IF rank(before.shape) = 0
               THEN /\ arr.arr.shape = before.shape
                    /\ arr.arr.data = <<Applied(before.data[1], depth)>>
               ELSE IF rank(before.shape) <= 1 /\ depth > 0
               THEN /\ arr.arr.shape = before.shape
                    /\ Len(arr.arr.data) = Len(before.data)
                    /\ \A i \in 1..Len(before.data) :
                           arr.arr.data[i] = Applied(before.data[i], depth - 1)
               ELSE /\ arr.arr = AppliedToRows(before, depth)
                    /\ SameContained(arr.arr, before)
            /\ (call.op = "reverse_depth" /\ ListOfBoxedLists(call.before)) =>
                  /\ depth = 1 =>
                        \A i \in 1..Len(before.data) :
                            arr.arr.data[i] =
                                Num(Array(before.data[i].arr.shape,
                                          Rev(before.data[i].arr.data)))
                  /\ depth = 0 => arr.arr.data = Rev(before.data)

\* reverse at depth 1 reversed the inside of both boxes of a list of two
\* boxed lists and kept their order
C19_Witness ==
    /\ call.op = "reverse_depth"
    /\ call.depth = 1
    /\ ListOfBoxedLists(call.before)
    /\ Len(call.before.arr.data) = 2
    /\ arr # call.before
    /\ \A i \in 1..2 :
           /\ Len(arr.arr.data[i].arr.data) = 2
           /\ arr.arr.data[i].arr.data = Rev(call.before.arr.data[i].arr.data)

(* C20: when two arrays share one copy-on-write buffer, any sequence of    *)
(* in-place operations (reverse_depth, transpose_depth, sort_up,           *)
(* sort_down, deduplicate, deshape_depth) applied to one of them leaves    *)
(* the shape and every element of the other array unchanged.               *)

C20_SharedBufferIsolation ==
    \A who \in Names :
        who \notin prior.touched =>
            /\ ShapeEq(View(arr, who).shape, prior.view.shape)
            /\ View(arr, who).data = prior.view.data

\* an operation wrote to a while a and b shared a buffer: a is changed and
\* b reads as before
C20_Witness ==
    /\ prior.touched = {"a"}
    /\ ~Shared(arr)
    /\ View(arr, "a").data # prior.view.data
    /\ View(arr, "b").data = prior.view.data
    /\ Len(prior.view.data) >= 2

(* C30: for every array of rank >= 1, including arrays that have rows but  *)
(* no elements (for example shape [3, 0]), the index lists returned by     *)
(* rise and fall contain exactly row_count entries, one for each row       *)
(* index.                                                                  *)

C30_RiseFallOneEntryPerRow ==
    (call.op \in {"rise", "fall"} /\ rank(call.before.shape) >= 1) =>
        /\ call.status = "ok"
        /\ Len(call.out) = row_count(call.before)
        /\ Range(call.out) = 0..(row_count(call.before) - 1)

(* C24: bits returns an error, and no array, whenever any element of its   *)
(* numeric input is negative or has a fractional part; it succeeds only on *)
(* arrays of non-negative integers.                                        *)

C24_BitsRejectsNonNaturals ==
    call.op = "bits" =>
        (call.status = "ok" <=>
            \A k \in 1..Len(call.before.data) :
                ~call.before.data[k].neg /\ ~call.before.data[k].frac)

(* C23: decoding bits fails for every input that contains a value other    *)
(* than exactly 0 or 1: Value::inv_bits on a byte or numeric array returns *)
(* an error, and never a decoded result, whenever any element is not 0 or  *)
(* 1 (for numeric input this includes 0.5, -1 and values of 2 or more).    *)

IsBoolean(kind, x) ==
    IF kind = "byte" THEN x \in {0, 1}
    ELSE ~x.neg /\ ~x.frac /\ x.mag \subseteq {0}

C23_InvBitsRejectsNonBooleans ==
    call.op = "inv_bits" =>
        ((\E k \in 1..Len(call.before.arr.data) :
             ~IsBoolean(call.before.kind, call.before.arr.data[k]))
            => call.status = "err")

(* C21: every operation that fails because it needed a fill value and none *)
(* was available returns an error carrying the fill-failure marker: first  *)
(* and last on an empty leading dimension, first_where on an input with no *)
(* nonzero element, and first_min_index, first_max_index, last_min_index   *)
(* and last_max_index on an array with zero rows.                          *)

ExtremumOps == {"first_min_index", "first_max_index", "last_min_index", "last_max_index"}

NeededFill ==
    \/ call.op \in {"first", "last"} /\ EmptyLeading(call.before)
    \/ /\ call.op = "first_where"
       /\ \A k \in 1..Len(call.before.data) : call.before.data[k] = 0
    \/ /\ call.op \in ExtremumOps
       /\ rank(call.before.shape) >= 1
       /\ row_count(call.before) = 0

C21_FillFailureMarked ==
    (NeededFill /\ call.fill = <<>>) => call.status = "fillerr"

(* C22: for every array of rank >= 1 with at least one row, under the      *)
(* lexicographic row ordering that rise uses, first_min_index is the       *)
(* smallest index of a minimal row, last_min_index the largest index of a  *)
(* minimal row, first_max_index the smallest index of a maximal row and    *)
(* last_max_index the largest index of a maximal row; on rank-0 input all  *)
(* four fail.                                                              *)

MinimalRows(a) ==
    {i \in 0..(row_count(a) - 1) :
        \A j \in 0..(row_count(a) - 1) :
            RiseCmp(row_slice(a, i), row_slice(a, j)) # "Greater"}

MaximalRows(a) ==
    {i \in 0..(row_count(a) - 1) :
        \A j \in 0..(row_count(a) - 1) :
            RiseCmp(row_slice(a, i), row_slice(a, j)) # "Less"}

Smallest(S) == CHOOSE x \in S : \A y \in S : x <= y

C22_ExtremumIndices ==
    call.op \in ExtremumOps =>
        LET a == call.before
        IN  /\ rank(a.shape) = 0 => call.status = "err"
            /\ (rank(a.shape) >= 1 /\ row_count(a) >= 1) =>
                  /\ call.status = "ok"
                  /\ call.op = "first_min_index" => call.out = Smallest(MinimalRows(a))
                  /\ call.op = "last_min_index" => call.out = MaxOf(MinimalRows(a))
                  /\ call.op = "first_max_index" => call.out = Smallest(MaximalRows(a))
                  /\ call.op = "last_max_index" => call.out = MaxOf(MaximalRows(a))

\* last_max_index chose the later of two equal maximal rows that are decided
\* by their second element
C22_Witness ==
    /\ call.op = "last_max_index"
    /\ row_count(call.before) = 2
    /\ row_len(call.before) = 2
    /\ row_slice(call.before, 0) = row_slice(call.before, 1)
    /\ call.out = 1

(* C25: for every array of naturals (any rank) that contains at least one  *)
(* nonzero element, first_where returns the row-major position of the      *)
(* first nonzero element, as a scalar index for rank <= 1 and as the full  *)
(* coordinate vector of length rank for rank >= 2, which equals the first  *)
(* row of where's result; when no element is nonzero it returns the fill   *)
(* value if one is available and fails otherwise.                          *)

Naturals(a) == \A k \in 1..Len(a.data) : a.data[k] >= 0

NonzeroPositions(a) == {k \in 0..(Len(a.data) - 1) : a.data[k + 1] # 0}

C25_FirstWhere ==
    (call.op = "first_where" /\ Naturals(call.before)) =>
        LET a == call.before
            out == call.out
        IN  IF NonzeroPositions(a) # {}
            THEN LET pos == Smallest(NonzeroPositions(a))
                 IN  /\ call.status = "ok"
                     /\ IF rank(a.shape) <= 1
                        THEN /\ out.shape.sizes = <<>>
                             /\ out.data = <<pos>>
                             /\ out.data[1] = wher(a).data[1]
                        ELSE /\ out.shape.sizes = <<rank(a.shape)>>
                             /\ Len(out.data) = rank(a.shape)
                             /\ \A k \in 1..rank(a.shape) :
                                    out.data[k] \in 0..(a.shape.sizes[k] - 1)
                             /\ FlatIndex(a.shape.sizes, out.data) = pos
                             /\ out.data = row_slice(wher(a), 0)
            ELSE IF call.fill # <<>>
                 THEN /\ call.status = "ok"
                      /\ out.shape.sizes = <<>>
                      /\ out.data = <<call.fill[1]>>
                 ELSE call.status # "ok"

\* first_where returned the coordinates <<1, 0>> of the first nonzero element
\* of a 2 by 2 array holding nonzero elements after it too
C25_Witness ==
    /\ call.op = "first_where"
    /\ call.status = "ok"
    /\ call.before.shape.sizes = <<2, 2>>
    /\ call.out.data = <<1, 0>>
    /\ call.before.data[4] # 0

(* C26: for a counts array of naturals of rank r >= 2, where returns a 2-D *)
(* array of shape [sum of all counts, r] whose rows are the row-major      *)
(* multi-indices of the positions with nonzero count, each repeated as     *)
(* many times as its count, in row-major position order; for rank <= 1 it  *)
(* returns the flat non-decreasing list in which index i appears counts[i] *)
(* times.                                                                  *)

\* The multi-index m is within the sizes
WithinSizes(sizes, m) ==
    Len(m) = Len(sizes) /\ \A k \in 1..Len(sizes) : m[k] \in 0..(sizes[k] - 1)

C26_WhereEnumeratesPositions ==
    call.op = "where" =>
        LET counts == call.before
            r == rank(counts.shape)
        IN  IF r >= 2
            THEN /\ arr.shape.sizes = <<Sum(counts.data), r>>
                 /\ Len(arr.data) = Sum(counts.data) * r
                 /\ \A i \in 0..(Sum(counts.data) - 1) :
                        /\ WithinSizes(counts.shape.sizes, row_slice(arr, i))
                        /\ i >= 1 =>
                              FlatIndex(counts.shape.sizes, row_slice(arr, i - 1))
                                  <= FlatIndex(counts.shape.sizes, row_slice(arr, i))
                 /\ \A p \in 0..(Len(counts.data) - 1) :
                        Cardinality({i \in 0..(Sum(counts.data) - 1) :
                                        FlatIndex(counts.shape.sizes, row_slice(arr, i)) = p})
                            = counts.data[p + 1]
            ELSE /\ arr.shape.sizes = <<Sum(counts.data)>>
                 /\ Len(arr.data) = Sum(counts.data)
                 /\ is_sorted(arr.data)
                 /\ \A p \in 0..(Len(counts.data) - 1) :
                        Cardinality({i \in 1..Len(arr.data) : arr.data[i] = p})
                            = counts.data[p + 1]

\* where expanded a rank-2 counts array with a count of 2 off the first row
\* and the first column and another position counted before it
C26_Witness ==
    /\ call.op = "where"
    /\ call.before.shape.sizes = <<2, 2>>
    /\ call.before.data[3] = 2
    /\ call.before.data[2] = 1
    /\ arr.data = <<0, 1, 1, 0, 1, 0>>

(* C27: for a 2-D naturals input of shape [n, t], inverse_where returns an *)
(* array with t dimensions whose size along axis j is 1 + the maximum j-th *)
(* coordinate over all input rows, in which the element at coordinate c    *)
(* equals the number of input rows equal to c (0 for coordinates that      *)
(* never occur), independent of the order of the input rows; for input of  *)
(* rank 3 or more it fails with an error naming the rank.                  *)

\* The multi-indices within the sizes
RECURSIVE MultiIndices(_)
MultiIndices(sizes) ==
    IF sizes = <<>> THEN {<<>>}
    ELSE {<<i>> \o m : i \in 0..(sizes[1] - 1), m \in MultiIndices(Tail(sizes))}

\* The array with its rows in the opposite order
RowsReversed(a) ==
    Array(a.shape, Flatten([r \in 1..row_count(a) |-> row_slice(a, row_count(a) - r)]))

C27_InverseWhereTallies ==
    call.op = "inverse_where" =>
        LET a == call.before
            rows == 0..(row_count(a) - 1)
        IN  /\ rank(a.shape) >= 3 => call.status = "err"
            /\ rank(a.shape) = 2 =>
                  /\ call.status = "ok"
                  /\ rank(arr.shape) = a.shape.sizes[2]
                  /\ \A j \in 1..a.shape.sizes[2] :
                         arr.shape.sizes[j] =
                             IF rows = {} THEN 0
                             ELSE 1 + MaxOf({row_slice(a, r)[j] : r \in rows})
                  /\ Len(arr.data) = Product(arr.shape.sizes)
                  /\ \A c \in MultiIndices(arr.shape.sizes) :
                         arr.data[FlatIndex(arr.shape.sizes, c) + 1]
                             = Cardinality({r \in rows : row_slice(a, r) = c})
                  /\ arr = inverse_where(RowsReversed(a)).arr

\* inverse_where tallied two rows given out of row-major order
C27_Witness ==
    /\ call.op = "inverse_where"
    /\ call.status = "ok"
    /\ call.before.shape.sizes = <<2, 2>>
    /\ row_slice(call.before, 0) = <<1, 0>>
    /\ row_slice(call.before, 1) = <<0, 1>>
    /\ arr.shape.sizes = <<2, 2>>
    /\ arr.data = <<0, 1, 1, 0>>

(* C29: reverse_depth(depth) leaves the shape unchanged and, within each   *)
(* consecutive block of product(shape[depth..]) elements, moves the row at *)
(* position i of that block (i < n = shape[depth]) to position n-1-i while *)
(* keeping the element order inside each row; each swap exchanges two      *)
(* in-bounds regions that do not overlap, and a block with zero elements   *)
(* or a depth >= rank makes the call a no-op.                              *)

C29_ReverseMirrorsRows ==
    call.op = "reverse_depth" =>
        LET a == call.before
            sizes == a.shape.sizes
            block == Product(Slice(sizes, Min(call.depth, Len(sizes)), Len(sizes)))
        IN  /\ arr.shape = a.shape
            /\ Len(arr.data) = Len(a.data)
            /\ IF call.depth >= Len(sizes) \/ block = 0
               THEN arr = a
               ELSE LET n == sizes[call.depth + 1]
                        len == block \div n
                    IN  /\ \A b \in 0..((Len(a.data) \div block) - 1), i \in 0..(n - 1),
                              e \in 1..len :
                               arr.data[b * block + (n - 1 - i) * len + e]
                                   = a.data[b * block + i * len + e]
                        /\ \A i \in 0..((n \div 2) - 1) :
                               LET left == i * len
                                   right == (n - i - 1) * len
                               IN  /\ left + len <= right
                                   /\ right + len <= block

\* reverse_depth at depth 1 mirrored the three rows of a block below the top
\* level and kept the middle row in place
C29_Witness ==
    /\ call.op = "reverse_depth"
    /\ call.depth = 1
    /\ call.before.shape.sizes = <<1, 3>>
    /\ call.before.data = <<0, 1, 1>>
    /\ arr.data = <<1, 1, 0>>

\* The sequence s turned by k places: to the left for k > 0, to the right for
\* k < 0
TurnedBy(s, k) ==
    <<>> \o [j \in 1..Len(s) |-> s[((j - 1 + k + Len(s)) % Len(s)) + 1]]

\* The call in progress or finished: dimensions from the depth onward, and
\* whether the claim speaks of it
TransposedTail ==
    Slice(call.before.shape.sizes, Min(call.depth, Len(call.before.shape.sizes)),
          Len(call.before.shape.sizes))

TransposeInScope ==
    /\ call.op = "transpose_depth"
    /\ Len(TransposedTail) >= 2
    /\ \A j \in 1..Len(TransposedTail) : TransposedTail[j] # 0
    /\ Abs(call.amnt) < Len(TransposedTail)

\* C28: for dimensions d_0..d_{n-1} from the depth onward (n >= 2, none zero)
\* and 0 < k < n, transpose_depth(depth, k) turns the dimensions to
\* d_k..d_{n-1}, d_0..d_{k-1} and, in each chunk, puts the input element at
\* (i_0..i_{n-1}) at (i_k..i_{n-1}, i_0..i_{k-1}); -k turns the other way. The
\* result is the one of the gather in order, whether the gather ran in order
\* or in parallel with the workers in any order: while the parallel gather
\* runs the input is unmodified, a finished worker has written exactly its own
\* chunk of temp, and the other chunks are untouched.
C28_TransposeRotatesAxes ==
    TransposeInScope =>
        LET a == call.before
            sizes == a.shape.sizes
            depth == Min(call.depth, Len(sizes))
            tail == TransposedTail
            block == Product(tail)
        IN  /\ call.status \in {"ok", "gathering"}
            /\ call.status = "ok" =>
                   /\ arr = transpose_depth(a, call.depth, call.amnt).arr
                   /\ arr.shape.sizes = SubSeq(sizes, 1, depth) \o TurnedBy(tail, call.amnt)
                   /\ Len(arr.data) = Len(a.data)
                   /\ \A b \in 0..((Len(a.data) \div block) - 1), m \in MultiIndices(tail) :
                          arr.data[b * block
                                   + FlatIndex(TurnedBy(tail, call.amnt),
                                               TurnedBy(m, call.amnt)) + 1]
                              = a.data[b * block + FlatIndex(tail, m) + 1]
            /\ call.status = "gathering" =>
                   LET subs == IF call.amnt > 0
                               THEN Product(SubSeq(tail, 1, call.amnt))
                               ELSE Product(SubSeq(tail, 1, Len(tail) + call.amnt))
                       input == SubSeq(a.data, call.chunk * block + 1,
                                       (call.chunk + 1) * block)
                   IN  /\ arr.shape = a.shape
                       /\ SubSeq(arr.data, call.chunk * block + 1, Len(arr.data))
                              = SubSeq(a.data, call.chunk * block + 1, Len(a.data))
                       /\ Len(call.temp) = block
                       /\ \A c \in 0..((block \div subs) - 1), e \in 0..(subs - 1) :
                              call.temp[c * subs + e + 1]
                                  = IF c \in call.done
                                    THEN input[e * (block \div subs) + c + 1]
                                    ELSE input[c * subs + e + 1]

\* The parallel gather finished a transposition of a [501, 2] array into
\* [2, 501]: element 1 of the first row went to the head of the second row
C28_Witness ==
    /\ call.op = "transpose_depth"
    /\ call.status = "ok"
    /\ call.amnt = 1
    /\ call.before.shape.sizes = <<PAR_THRESHOLD + 1, 2>>
    /\ call.before.data[2] = 1
    /\ arr.shape.sizes = <<2, PAR_THRESHOLD + 1>>
    /\ arr.data[PAR_THRESHOLD + 2] = 1
    /\ arr.data[2] = 2

===========================================================================
